---- MODULE Spec2Model ----
(***************************************************************************)
(* Model of the Timesheet report engine: the five report classes           *)
(* (TimesheetGenerator, AbsenceReportGenerator, DataValidator,             *)
(* ProjectSummaryGenerator, FoodAllowanceCalculator) reading one uploaded  *)
(* worksheet.  A JavaScript string is a sequence of one-character strings, *)
(* a JavaScript Date is its local calendar day counted from 1970-01-01     *)
(* (or Invalid Date), a worksheet cell is a tagged value.                  *)
(***************************************************************************)
EXTENDS Integers, Sequences, FiniteSets, TLC

\* ------------------------------------------------------------------------
\* Bounds of the model
\* ------------------------------------------------------------------------
\* number of free (arbitrary) data rows appended to the worksheet
MaxRows == 2

\* ------------------------------------------------------------------------
\* Generic helpers
\* ------------------------------------------------------------------------
Max(a, b) == IF a >= b THEN a ELSE b

\* the elements of the set S of indices 1..n, in increasing order
Indices(n, S) == SelectSeq([i \in 1..n |-> i], LAMBDA i : i \in S)

\* ------------------------------------------------------------------------
\* JavaScript strings
\* ------------------------------------------------------------------------
UpperChars == <<"A","B","C","D","E","F","G","H","I","J","K","L","M",
                "N","O","P","Q","R","S","T","U","V","W","X","Y","Z">>

LowerChars == <<"a","b","c","d","e","f","g","h","i","j","k","l","m",
                "n","o","p","q","r","s","t","u","v","w","x","y","z">>

DigitChars == <<"0","1","2","3","4","5","6","7","8","9">>

IsDigit(c) == \E i \in DOMAIN DigitChars : DigitChars[i] = c

DigitVal(c) == (CHOOSE i \in DOMAIN DigitChars : DigitChars[i] = c) - 1

IsSpace(c) == c \in {" ", "\t"}

\* String.prototype.toLowerCase / toUpperCase, one character
LowerChar(c) ==
    IF \E i \in DOMAIN UpperChars : UpperChars[i] = c
    THEN LowerChars[CHOOSE i \in DOMAIN UpperChars : UpperChars[i] = c]
    ELSE c

UpperChar(c) ==
    IF \E i \in DOMAIN LowerChars : LowerChars[i] = c
    THEN UpperChars[CHOOSE i \in DOMAIN LowerChars : LowerChars[i] = c]
    ELSE c

toLowerCase(s) == [i \in DOMAIN s |-> LowerChar(s[i])]

toUpperCase(s) == [i \in DOMAIN s |-> UpperChar(s[i])]

RECURSIVE trimStart(_)
trimStart(s) ==
    IF s # <<>> /\ IsSpace(Head(s)) THEN trimStart(Tail(s)) ELSE s

RECURSIVE trimEnd(_)
trimEnd(s) ==
    IF s # <<>> /\ IsSpace(s[Len(s)])
    THEN trimEnd(SubSeq(s, 1, Len(s) - 1))
    ELSE s

\* String.prototype.trim
trim(s) == trimEnd(trimStart(s))

\* s.replace(/\s+/g, ' '): every maximal run of whitespace becomes one blank
RECURSIVE collapseSpaces(_)
collapseSpaces(s) ==
    IF s = <<>> THEN <<>>
    ELSE IF IsSpace(Head(s))
         THEN <<" ">> \o collapseSpaces(trimStart(s))
         ELSE <<Head(s)>> \o collapseSpaces(Tail(s))

\* s.includes(sub)
includes(s, sub) ==
    \E i \in 1..(Len(s) - Len(sub) + 1) : SubSeq(s, i, i + Len(sub) - 1) = sub

\* s.split(sep): the pieces between the characters of s that are in seps
split(s, seps) ==
    LET at    == SelectSeq([i \in 1..Len(s) |-> i], LAMBDA i : s[i] \in seps)
        edges == <<0>> \o at \o <<Len(s) + 1>>
    IN [k \in 1..(Len(at) + 1) |-> SubSeq(s, edges[k] + 1, edges[k + 1] - 1)]

\* dateValue.split(/[-/]/)
splitDate(s) == split(s, {"-", "/"})

\* NaN as the result of parseInt.  The pieces parsed here contain no sign
\* (they were split on '-'), so every number parseInt returns is >= 0.
NaN == -1

RECURSIVE digitsValue(_, _)
digitsValue(s, acc) ==
    IF s = <<>> \/ ~IsDigit(Head(s)) THEN acc
    ELSE digitsValue(Tail(s), acc * 10 + DigitVal(Head(s)))

\* parseInt(s): skip leading blanks, read the longest digit prefix
parseInt(s) ==
    LET t == trimStart(s)
    IN IF t = <<>> \/ ~IsDigit(Head(t)) THEN NaN ELSE digitsValue(t, 0)

\* String(n) for n >= 0
RECURSIVE numToString(_)
numToString(n) ==
    IF n < 10 THEN <<DigitChars[n + 1]>>
    ELSE numToString(n \div 10) \o <<DigitChars[(n % 10) + 1]>>

\* String(n).padStart(2, '0')
padStart2(s) == IF Len(s) < 2 THEN <<"0">> \o s ELSE s

\* ------------------------------------------------------------------------
\* JavaScript Date, local time.  day = local calendar day since 1970-01-01.
\* ------------------------------------------------------------------------
InvalidDate == [valid |-> FALSE, day |-> 0]

ValidDate(d) == [valid |-> TRUE, day |-> d]

\* ECMAScript MakeDay for a proleptic Gregorian year/month(1..12)/day
DaysFromCivil(y, m, d) ==
    LET yy  == IF m <= 2 THEN y - 1 ELSE y
        era == yy \div 400
        yoe == yy - era * 400
        mp  == IF m > 2 THEN m - 3 ELSE m + 9
        doy == (153 * mp + 2) \div 5 + d - 1
        doe == yoe * 365 + yoe \div 4 - yoe \div 100 + doy
    IN era * 146097 + doe - 719468

\* ECMAScript YearFromTime / MonthFromTime / DateFromTime
CivilFromDays(z) ==
    LET zz  == z + 719468
        era == zz \div 146097
        doe == zz - era * 146097
        yoe == (doe - doe \div 1460 + doe \div 36524 - doe \div 146096) \div 365
        doy == doe - (365 * yoe + yoe \div 4 - yoe \div 100)
        mp  == (5 * doy + 2) \div 153
        d   == doy - (153 * mp + 2) \div 5 + 1
        m   == IF mp < 10 THEN mp + 3 ELSE mp - 9
        y   == yoe + era * 400 + (IF m <= 2 THEN 1 ELSE 0)
    IN [year |-> y, month |-> m, date |-> d]

\* date.getFullYear(), date.getMonth() (0-based), date.getDate(), date.getDay()
getFullYear(dt) == CivilFromDays(dt.day).year

getMonth(dt) == CivilFromDays(dt.day).month - 1

getDate(dt) == CivilFromDays(dt.day).date

\* 1970-01-01 was a Thursday (4); 0 = Sunday, 5 = Friday, 6 = Saturday
getDay(dt) == (dt.day + 4) % 7

\* new Date(year, monthIndex, day) for numeric arguments: out-of-range month
\* and day roll over, years 0..99 mean 1900..1999
newDateYMD(y, m0, d) ==
    LET fy == IF y <= 99 THEN 1900 + y ELSE y
        ym == fy + (m0 \div 12)
        mn == m0 % 12
    IN ValidDate(DaysFromCivil(ym, mn + 1, 1) + d - 1)

\* new Date(year, month, 0).getDate(): the number of days of month (1..12)
daysInMonth(year, month) == getDate(newDateYMD(year, month, 0))

\* date.toISOString-free key: `${year}-${month}-${day}` of the local
\* components, month and day padded to two digits
formatDateLocal(dt) ==
    LET c == CivilFromDays(dt.day)
    IN numToString(c.year) \o <<"-">> \o padStart2(numToString(c.month))
         \o <<"-">> \o padStart2(numToString(c.date))

\* ------------------------------------------------------------------------
\* State
\* ------------------------------------------------------------------------
VARIABLES
    worksheets,       \* number of worksheets of the uploaded workbook
    sheet,            \* worksheet rows; sheet[i] is row i of the file, row 1 the header
    month,            \* target month 1..12 (constructor argument)
    year,             \* target year (constructor argument)
    satFriEmployees,  \* names of the employees resting Friday and Saturday
    tzWest,           \* TRUE when the process time zone is west of UTC
    projectPolicySheet,   \* rows of the project policies worksheet, row 1 the header
    employeePolicySheet,  \* rows of the employee policies worksheet, row 1 the header
    tg,               \* the TimesheetGenerator object
    ar,               \* the AbsenceReportGenerator object
    dv,               \* the DataValidator object
    ps,               \* the ProjectSummaryGenerator object
    fa,               \* the FoodAllowanceCalculator object
    outputDir,        \* the entries of the server's output directory, by name
    requests          \* the HTTP requests received so far, in order of arrival

\* the upload and the request parameters: no method assigns them
inputs ==
    <<worksheets, sheet, month, year, satFriEmployees, tzWest, projectPolicySheet,
      employeePolicySheet>>

\* the state of the web server: no method of the report classes assigns it
server == <<outputDir, requests>>

vars ==
    <<worksheets, sheet, month, year, satFriEmployees, tzWest, projectPolicySheet,
      employeePolicySheet, tg, ar, dv, ps, fa, outputDir, requests>>

\* ------------------------------------------------------------------------
\* Worksheet cells: row.getCell(k).value
\* ------------------------------------------------------------------------
NullCell == [t |-> "null", s |-> <<>>, n |-> 0]

StrCell(str) == [t |-> "str", s |-> str, n |-> 0]

NumCell(num) == [t |-> "num", s |-> <<>>, n |-> num]

\* a Date cell; n is the local calendar day of the Date object
DateCell(d) == [t |-> "date", s |-> <<>>, n |-> d]

\* a cell holding neither a string, a number nor a Date (boolean, formula object)
BoolCell == [t |-> "bool", s |-> <<>>, n |-> 1]

\* JavaScript truthiness of a cell value
Truthy(c) ==
    CASE c.t = "null" -> FALSE
      [] c.t = "str"  -> c.s # <<>>
      [] c.t = "num"  -> c.n # 0
      [] OTHER        -> TRUE

\* value.toString() / String(value) of a text or (non-negative) number cell
CellString(c) == IF c.t = "num" THEN numToString(c.n) ELSE c.s

\* value || dflt, for a text cell
OrDefault(c, dflt) == IF Truthy(c) THEN CellString(c) ELSE dflt

Row(code, name, date, emp, by) ==
    [projectCode |-> code, projectName |-> name, dateValue |-> date,
     employeeName |-> emp, enteredBy |-> by]

\* ------------------------------------------------------------------------
\* Date parsing of the ingest loops
\* ------------------------------------------------------------------------
\* an instant at 00:00 UTC of UTC day d, read with the local getters: the
\* same calendar day east of Greenwich, the day before west of it
UtcMidnightLocal(d) == ValidDate(IF tzWest THEN d - 1 ELSE d)

IsDigits(s, n) == Len(s) = n /\ \A i \in DOMAIN s : IsDigit(s[i])

\* new Date(string) for a string that did not split into three pieces: the
\* ISO forms YYYY and YYYY-MM are read as UTC, text without a date is Invalid
newDateString(s) ==
       IF IsDigits(s, 4) THEN UtcMidnightLocal(DaysFromCivil(parseInt(s), 1, 1))
       ELSE IF /\ Len(s) = 7 /\ s[5] = "-" /\ IsDigits(SubSeq(s, 1, 4), 4)
               /\ IsDigits(SubSeq(s, 6, 7), 2)
               /\ parseInt(SubSeq(s, 6, 7)) \in 1..12
            THEN UtcMidnightLocal(DaysFromCivil(parseInt(SubSeq(s, 1, 4)),
                                                parseInt(SubSeq(s, 6, 7)), 1))
            ELSE InvalidDate

\* new Date(dateStr) of a formatDateLocal key: ISO date-only form, read as UTC
newDateISO(s) ==
    LET parts == splitDate(s)
    IN UtcMidnightLocal(DaysFromCivil(parseInt(parts[1]), parseInt(parts[2]),
                                      parseInt(parts[3])))

\* new Date(y, m - 1, d) for the three parsed pieces; a NaN makes it Invalid
newDateParsed(y, m, d) ==
    IF y = NaN \/ m = NaN \/ d = NaN THEN InvalidDate ELSE newDateYMD(y, m - 1, d)

\* the string branch: three pieces are read as year, month, day
parseDateString(s, parts) ==
    IF Len(parts) = 3
    THEN newDateParsed(parseInt(parts[1]), parseInt(parts[2]), parseInt(parts[3]))
    ELSE newDateString(s)

\* the date-parsing branch of the row callback; skip = the bare `return`
parseDateValue(dateValue) ==
    CASE dateValue.t = "date" ->
            [skip |-> FALSE, date |-> ValidDate(dateValue.n)]
      [] dateValue.t = "str" ->
            [skip |-> FALSE,
             date |-> parseDateString(dateValue.s, splitDate(dateValue.s))]
      [] dateValue.t = "num" ->
            [skip |-> FALSE, date |-> UtcMidnightLocal(dateValue.n - 25569)]
      [] OTHER -> [skip |-> TRUE, date |-> InvalidDate]

\* the filter with the year comparison left out
InWindow_monthOnly(date) == getMonth(date) + 1 = month

\* the month/year filter: date.getMonth() + 1 === month && getFullYear() === year
InWindow(date) == getMonth(date) + 1 = month /\ getFullYear(date) = year

\* what the row callback does with a row's date: the date it stores, or
\* stored = FALSE when one of its early returns is taken
storedDate(p) ==
    IF p.skip \/ ~p.date.valid \/ ~InWindow(p.date)
    THEN [stored |-> FALSE, date |-> InvalidDate]
    ELSE [stored |-> TRUE, date |-> p.date]

rowDate(row) == storedDate(parseDateValue(row.dateValue))

\* the early returns shared by the row callbacks: the header row, a falsy
\* employeeName or dateValue, a date that is not stored
RowKept(row, rowIndex) ==
    /\ rowIndex # 1
    /\ Truthy(row.employeeName)
    /\ Truthy(row.dateValue)
    /\ rowDate(row).stored

\* worksheet.eachRow(callback) where the callback either returns early or
\* does obj[key(row)].push(entry(row, rowIndex)): every array of obj grows by
\* the entries of the rows that were not skipped, in row order
EachRowPush(obj, rows, keeps, key, entry) ==
    LET kept == Indices(Len(rows), keeps)
        keys == {key[i] : i \in keeps}
    IN [k \in (DOMAIN obj) \cup keys |->
          LET mine == SelectSeq(kept, LAMBDA i : key[i] = k)
          IN (IF k \in DOMAIN obj THEN obj[k] ELSE <<>>)
               \o [n \in DOMAIN mine |-> entry[mine[n]]]]

\* this.employeeData[employeeName]: the key is the cell value as it is
EmployeeKey(row) == CellString(row.employeeName)

\* the rows of a sheet that the shared early returns do not skip
KeptRows(rows) == {i \in DOMAIN rows : RowKept(rows[i], i)}

\* the employeeData key of every row
KeyOfRows(rows) == [i \in DOMAIN rows |-> EmployeeKey(rows[i])]

EmptyObj == <<>>

Dashes == <<"-", "-">>

\* ------------------------------------------------------------------------
\* TimesheetGenerator (generator.js)
\* ------------------------------------------------------------------------
\* the entry the eachRow callback of processExcel pushes for a row it keeps
TG_entryOn(row, date) ==
    [projectCode |-> OrDefault(row.projectCode, Dashes),
     projectName |-> OrDefault(row.projectName, Dashes),
     date        |-> date,
     dayOfWeek   |-> getDay(date),
     enteredBy   |-> OrDefault(row.enteredBy, Dashes)]

TG_entry(row, rowIndex) == TG_entryOn(row, rowDate(row).date)

\* worksheet.eachRow of processExcel
TG_eachRow(data, rows) ==
    EachRowPush(data, rows, KeptRows(rows), KeyOfRows(rows),
                [i \in DOMAIN rows |-> TG_entry(rows[i], i)])

\* getTotalFridaysInMonth / getTotalSaturdaysInMonth: days of the target
\* month whose getDay() is wd
TG_getTotalWeekdayInMonth(wd) ==
    Cardinality({day \in 1..daysInMonth(year, month) :
                    getDay(newDateYMD(year, month - 1, day)) = wd})

TG_getTotalFridaysInMonth == TG_getTotalWeekdayInMonth(5)

TG_getTotalSaturdaysInMonth == TG_getTotalWeekdayInMonth(6)

\* the value of totalAbsentDays before Math.max(0, .)
TG_rawAbsent(dim, totalF, totalS, worked, workedF, workedS, hasSatFriOff) ==
    IF hasSatFriOff
    THEN dim - worked - (totalF + totalS - workedF - workedS)
    ELSE dim - worked - (totalF - workedF)

\* totalAbsentDays = Math.max(0, totalAbsentDays)
TG_clamp(totalAbsentDays) == Max(0, totalAbsentDays)

\* the month's length instead of the fixed 30
TG_payrun_monthLength(totalAbsentDays) == daysInMonth(year, month) - totalAbsentDays

\* payrunDays = 30 - totalAbsentDays
TG_payrun(totalAbsentDays) == 30 - totalAbsentDays

\* the body of the employee loop of calculateSummaries
TG_summary(employeeName, entries, dim, totalFridays, totalSaturdays) ==
    LET workedFridays   == Cardinality({i \in DOMAIN entries : entries[i].dayOfWeek = 5})
        workedSaturdays == Cardinality({i \in DOMAIN entries : entries[i].dayOfWeek = 6})
        workedDates     == {formatDateLocal(entries[i].date) : i \in DOMAIN entries}
        hasSatFriOff    == employeeName \in satFriEmployees
        totalAbsentDays ==
            TG_clamp(TG_rawAbsent(dim, totalFridays, totalSaturdays,
                                  Cardinality(workedDates), workedFridays,
                                  workedSaturdays, hasSatFriOff))
    IN [totalAbsentDays |-> totalAbsentDays,
        totalPayrunDays |-> TG_payrun(totalAbsentDays),
        workedFridays   |-> workedFridays,
        workedSaturdays |-> workedSaturdays,
        hasSatFriOff    |-> hasSatFriOff]

TG_calculateSummaries(data, summaries) ==
    LET dim            == daysInMonth(year, month)
        totalFridays   == TG_getTotalFridaysInMonth
        totalSaturdays == TG_getTotalSaturdaysInMonth
    IN [e \in (DOMAIN summaries) \cup (DOMAIN data) |->
          IF e \in DOMAIN data
          THEN TG_summary(e, data[e], dim, totalFridays, totalSaturdays)
          ELSE summaries[e]]

\* the constructor; html holds the pages generatePDFs has rendered
TG_new ==
    [stage |-> "new", employeeData |-> EmptyObj, employeeSummaries |-> EmptyObj,
     html |-> EmptyObj]

\* the object after the ingest loop and calculateSummaries()
TG_processed(data, summaries) ==
    [stage |-> "processed",
     employeeData |-> data,
     employeeSummaries |-> TG_calculateSummaries(data, summaries),
     html |-> EmptyObj]

\* processExcel(): ingest every row, then calculateSummaries()
TG_processExcel ==
    /\ tg.stage = "new"
    /\ tg' = TG_processed(TG_eachRow(tg.employeeData, sheet), tg.employeeSummaries)
    /\ UNCHANGED <<inputs, server, ar, dv, ps, fa>>

\* processExcel() called once more on the same generator: employeeData and
\* employeeSummaries are fields the constructor set, processExcel resets neither
TG_processExcelAgain ==
    /\ tg.stage = "processed"
    /\ tg' = [TG_processed(TG_eachRow(tg.employeeData, sheet), tg.employeeSummaries)
                 EXCEPT !.stage = "reprocessed"]
    /\ UNCHANGED <<inputs, server, ar, dv, ps, fa>>

\* the Status cells of one day of the Daily Timesheet table of generateHTML:
\* one row per entry of a worked day, one row for a day without entries
TG_dayRows(dayOfWeek, workedEntries, hasSatFriOff) ==
    IF workedEntries # 0
    THEN [idx \in 1..workedEntries |->
             IF dayOfWeek = 5 THEN "Worked (Friday)"
             ELSE IF dayOfWeek = 6 THEN "Worked (Saturday)" ELSE "Worked"]
    ELSE <<IF dayOfWeek = 5 THEN "Off (Friday)"
           ELSE IF dayOfWeek = 6 /\ hasSatFriOff THEN "Off (Saturday)"
           ELSE "Absent">>

\* generateHTML(employeeName, entries, summary): the summary table and the
\* table rows of every day of the month, workedDateMap being the entries
\* grouped by formatDateLocal key
TG_generateHTML(entries, summary) ==
    [totalAbsentDays |-> summary.totalAbsentDays,
     workedFridays   |-> summary.workedFridays,
     totalPayrunDays |-> summary.totalPayrunDays,
     tableRows |->
        [day \in 1..daysInMonth(year, month) |->
            TG_dayRows(getDay(newDateYMD(year, month - 1, day)),
                       Cardinality({i \in DOMAIN entries :
                                       formatDateLocal(entries[i].date)
                                         = formatDateLocal(newDateYMD(year, month - 1, day))}),
                       summary.hasSatFriOff)]]

\* generatePDFs(outputDir, progressCallback): one page per employee
TG_generatePDFs ==
    /\ tg.stage = "processed"
    /\ tg' = [tg EXCEPT !.stage = "printed",
                        !.html = [e \in DOMAIN tg.employeeData |->
                                     TG_generateHTML(tg.employeeData[e],
                                                     tg.employeeSummaries[e])]]
    /\ UNCHANGED <<inputs, server, ar, dv, ps, fa>>

\* ------------------------------------------------------------------------
\* AbsenceReportGenerator (absenceReport.js)
\* ------------------------------------------------------------------------
AL == <<"A", "/", "L">>

\* the entry the eachRow callback of loadTimesheetData pushes for a row it keeps
AR_entry(row, rowIndex) ==
    [date          |-> rowDate(row).date,
     projectCode   |-> OrDefault(row.projectCode, <<>>),
     projectName   |-> OrDefault(row.projectName, <<>>),
     isAnnualLeave |-> /\ Truthy(row.projectCode)
                       /\ toUpperCase(CellString(row.projectCode)) = AL]

\* worksheet.eachRow of loadTimesheetData
AR_eachRow(data, rows) ==
    EachRowPush(data, rows, KeptRows(rows), KeyOfRows(rows),
                [i \in DOMAIN rows |-> AR_entry(rows[i], i)])

\* dateMap: the employee's entries grouped by formatDateLocal key, each
\* group in entry order.  keyed pairs every distinct stored day with its key.
AR_dateMap(entries) ==
    LET keyed == {<<formatDateLocal(ValidDate(d)), d>> :
                     d \in {entries[i].date.day : i \in DOMAIN entries}}
    IN [k \in {p[1] : p \in keyed} |->
          LET days == {p[2] : p \in {q \in keyed : q[1] = k}}
          IN SelectSeq(entries, LAMBDA e : e.date.day \in days)]

\* the day-of-month loop counting the month's days whose getDay() is wd
AR_totalWeekday(wd) ==
    Cardinality({day \in 1..daysInMonth(year, month) :
                    getDay(newDateYMD(year, month - 1, day)) = wd})

\* the `for (const dateStr in dateMap)` loop: keys whose re-parsed date,
\* new Date(dateStr), has getDay() = wd
AR_workedWeekday(dateMap, wd) ==
    Cardinality({k \in DOMAIN dateMap : getDay(newDateISO(k)) = wd})

\* the value of absence before Math.max(0, .)
AR_rawAbsence(dim, totalF, totalS, worked, workedF, workedS, isSatFri) ==
    IF isSatFri
    THEN dim - worked - (totalF + totalS - workedF - workedS)
    ELSE dim - worked - (totalF - workedF)

\* the absence left as computed
AR_clamp_none(absence) == absence

\* absence = Math.max(0, absence)
AR_clamp(absence) == Max(0, absence)

\* payrunDays = 30 - absence
AR_payrun(absence) == 30 - absence

\* absentDates: the keys of the month's days, in day order, Fridays (and
\* Saturdays of Sat+Fri employees) left out, that have no key in dateMap
AR_absentDates(dateMap, isSatFriEmployee) ==
    LET dateOf(day) == newDateYMD(year, month - 1, day)
        dim  == daysInMonth(year, month)
        days == Indices(dim,
                        {day \in 1..dim :
                            /\ getDay(dateOf(day)) # 5
                            /\ ~(isSatFriEmployee /\ getDay(dateOf(day)) = 6)
                            /\ formatDateLocal(dateOf(day)) \notin DOMAIN dateMap})
    IN [n \in DOMAIN days |-> formatDateLocal(dateOf(days[n]))]

\* the body of the employee loop of calculatePayrunAndAbsence
AR_summary(employeeName, entries, dim, totalFridays, totalSaturdays) ==
    LET isSatFriEmployee == employeeName \in satFriEmployees
        dateMap          == AR_dateMap(entries)
        workedDays       == Cardinality(DOMAIN dateMap)
        workedFridays    == AR_workedWeekday(dateMap, 5)
        workedSaturdays  == AR_workedWeekday(dateMap, 6)
        absence          ==
            AR_clamp(AR_rawAbsence(dim, totalFridays, totalSaturdays, workedDays,
                                   workedFridays, workedSaturdays, isSatFriEmployee))
    IN [workedDays       |-> workedDays,
        workedFridays    |-> workedFridays,
        workedSaturdays  |-> workedSaturdays,
        payrunDays       |-> AR_payrun(absence),
        absence          |-> absence,
        absentDates      |-> AR_absentDates(dateMap, isSatFriEmployee),
        isSatFriEmployee |-> isSatFriEmployee,
        dateMap          |-> dateMap]

\* the employee loop of calculatePayrunAndAbsence
AR_calculate(data, summaries) ==
    LET dim            == daysInMonth(year, month)
        totalFridays   == AR_totalWeekday(5)
        totalSaturdays == AR_totalWeekday(6)
    IN [e \in (DOMAIN summaries) \cup (DOMAIN data) |->
          IF e \in DOMAIN data
          THEN AR_summary(e, data[e], dim, totalFridays, totalSaturdays)
          ELSE summaries[e]]

AR_new == [stage |-> "new", employeeData |-> EmptyObj, payrunSummary |-> EmptyObj]

\* loadTimesheetData()
AR_loadTimesheetData ==
    /\ ar.stage = "new"
    /\ ar' = [ar EXCEPT !.stage = "loaded",
                        !.employeeData = AR_eachRow(ar.employeeData, sheet)]
    /\ UNCHANGED <<inputs, server, tg, dv, ps, fa>>

\* calculatePayrunAndAbsence()
AR_calculatePayrunAndAbsence ==
    /\ ar.stage = "loaded"
    /\ ar' = [ar EXCEPT !.stage = "calculated",
                        !.payrunSummary = AR_calculate(ar.employeeData, ar.payrunSummary)]
    /\ UNCHANGED <<inputs, server, tg, dv, ps, fa>>

\* the generator a after loadTimesheetData() left data and
\* calculatePayrunAndAbsence() ran over it
AR_processed(a, data) ==
    [a EXCEPT !.employeeData = data,
              !.payrunSummary = AR_calculate(data, a.payrunSummary)]

\* process() on generator a
AR_processOn(a) == AR_processed(a, AR_eachRow(a.employeeData, sheet))

\* process(): loadTimesheetData(), then calculatePayrunAndAbsence(); it can
\* be called again on the same generator, whose fields it does not reset
AR_process ==
    /\ ar.stage \in {"new", "calculated"}
    /\ ar' = [AR_processOn(ar) EXCEPT
                 !.stage = IF ar.stage = "new" THEN "calculated" ELSE "recalculated"]
    /\ UNCHANGED <<inputs, server, tg, dv, ps, fa>>

\* ------------------------------------------------------------------------
\* DataValidator
\* ------------------------------------------------------------------------
\* the record the eachRow callback of loadTimesheetData pushes for a row it
\* keeps: every text field is trimmed
DV_recordOn(row, rowIndex, date) ==
    [rowNumber    |-> rowIndex,
     projectCode  |-> trim(OrDefault(row.projectCode, <<>>)),
     projectName  |-> trim(OrDefault(row.projectName, <<>>)),
     date         |-> date,
     dateStr      |-> formatDateLocal(date),
     employeeName |-> trim(CellString(row.employeeName)),
     enteredBy    |-> trim(OrDefault(row.enteredBy, <<>>)),
     status       |-> "Clean",
     statusColor  |-> "green"]

DV_record(row, rowIndex) == DV_recordOn(row, rowIndex, rowDate(row).date)

\* worksheet.eachRow of loadTimesheetData: allRecords.push(record) for every
\* row that is not skipped, in row order
DV_push(records, rows, kept) ==
    records \o [n \in DOMAIN kept |-> DV_record(rows[kept[n]], kept[n])]

DV_eachRow(records, rows) == DV_push(records, rows, Indices(Len(rows), KeptRows(rows)))

\* `${record.employeeName}|${record.dateStr}`
DV_key(record) == record.employeeName \o <<"|">> \o record.dateStr

\* the forEach of checkDuplicates.  acc.seen maps a key to the index of its
\* first record, acc.dupKeys lists the keys of duplicateMap in insertion
\* order, acc.dupIdx maps each of them to its list of record indices.
RECURSIVE DV_dupLoop(_, _)
DV_dupLoop(acc, index) ==
    IF index > Len(acc.records) THEN acc
    ELSE LET record == acc.records[index]
             key    == DV_key(record)
         IN IF key \in DOMAIN acc.seen
            THEN DV_dupLoop(
                   [records |-> [acc.records EXCEPT ![index].status = "Duplicate",
                                                    ![index].statusColor = "yellow"],
                    seen    |-> acc.seen,
                    dupKeys |-> IF key \in DOMAIN acc.dupIdx THEN acc.dupKeys
                                ELSE Append(acc.dupKeys, key),
                    dupIdx  |-> IF key \in DOMAIN acc.dupIdx
                                THEN [acc.dupIdx EXCEPT ![key] = Append(@, index)]
                                ELSE acc.dupIdx @@ (key :> <<acc.seen[key], index>>)],
                   index + 1)
            ELSE DV_dupLoop([acc EXCEPT !.seen = acc.seen @@ (key :> index)], index + 1)

\* the first record of the key left out of the count
DV_dupEntry_laterOnly(records, key, indices) ==
    LET parts == split(key, {"|"})
    IN [employeeName |-> parts[1],
        date         |-> parts[2],
        occurrences  |-> Len(indices) - 1,
        rowNumbers   |-> [i \in DOMAIN indices |-> records[indices[i]].rowNumber],
        projects     |-> [i \in DOMAIN indices |-> records[indices[i]].projectCode]]

\* one entry of the duplicates report (rowNumbers and projects before join)
DV_dupEntry(records, key, indices) ==
    LET parts == split(key, {"|"})
    IN [employeeName |-> parts[1],
        date         |-> parts[2],
        occurrences  |-> Len(indices),
        rowNumbers   |-> [i \in DOMAIN indices |-> records[indices[i]].rowNumber],
        projects     |-> [i \in DOMAIN indices |-> records[indices[i]].projectCode]]

\* name.toLowerCase().trim().replace(/\s+/g, ' ')
normalizeProjectName(name) == collapseSpaces(trim(toLowerCase(name)))

\* the distinct elements of s, in order of first occurrence: [...new Set(s)]
RECURSIVE Distinct(_)
Distinct(s) ==
    IF s = <<>> THEN <<>>
    ELSE LET rest == Distinct(SubSeq(s, 1, Len(s) - 1))
             last == s[Len(s)]
         IN IF \E i \in DOMAIN rest : rest[i] = last THEN rest ELSE Append(rest, last)

\* the keys of projectCodeMap, in insertion order
DV_codes(records) == Distinct([i \in DOMAIN records |-> records[i].projectCode])

\* the names compared as they were typed
DV_inconsistent_raw(records, projectCode) ==
    Cardinality({records[i].projectName :
                    i \in {j \in DOMAIN records : records[j].projectCode = projectCode}}) > 1

\* uniqueNames.size > 1 for the records carrying projectCode
DV_inconsistent(records, projectCode) ==
    Cardinality({normalizeProjectName(records[i].projectName) :
                    i \in {j \in DOMAIN records : records[j].projectCode = projectCode}}) > 1

\* one entry of the inconsistencies report
DV_inconsEntry(records, projectCode) ==
    LET recs  == SelectSeq(records, LAMBDA r : r.projectCode = projectCode)
        names == Distinct([i \in DOMAIN recs |-> recs[i].projectName])
    IN [projectCode  |-> projectCode,
        projectNames |-> names,
        count        |-> Len(names),
        rowNumbers   |-> [i \in DOMAIN recs |-> recs[i].rowNumber]]

\* every record of the code marked, whatever its status
DV_flag_any(record) ==
    [record EXCEPT !.status = "Inconsistent", !.statusColor = "red"]

\* if (record.status === 'Clean') { status = 'Inconsistent'; statusColor = 'red' }
DV_flag(record) ==
    IF record.status = "Clean"
    THEN [record EXCEPT !.status = "Inconsistent", !.statusColor = "red"]
    ELSE record

\* every record that is not Clean counted
DV_countStatus_notClean(records, status) ==
    Cardinality({i \in DOMAIN records : records[i].status # "Clean"})

\* allRecords.filter(r => r.status === status).length
DV_countStatus(records, status) ==
    Cardinality({i \in DOMAIN records : records[i].status = status})

\* ((part / total) * 100).toFixed(1), in tenths of a percent
toFixed1(part, total) == (2000 * part + total) \div (2 * total)

\* total > 0 ? ((part / total) * 100).toFixed(1) : 0
DV_rate(part, total) == IF total > 0 THEN toFixed1(part, total) ELSE 0

\* the constructor.  cleanRecords holds references to records of allRecords:
\* it is kept as the list of their indices
DV_new ==
    [stage |-> "new", allRecords |-> <<>>, duplicates |-> <<>>,
     inconsistencies |-> <<>>, cleanRecords |-> <<>>, statistics |-> EmptyObj]

\* loadTimesheetData() on validator d
DV_loadOn(d) ==
    [d EXCEPT !.stage = "loaded", !.allRecords = DV_eachRow(d.allRecords, sheet)]

\* the duplicates report entries of the keys of duplicateMap
DV_dupEntries(acc) ==
    [k \in DOMAIN acc.dupKeys |->
        DV_dupEntry(acc.records, acc.dupKeys[k], acc.dupIdx[acc.dupKeys[k]])]

\* the validator after the forEach acc: the tagged records, the report grown
DV_deduplicated(d, acc) ==
    [d EXCEPT !.stage = "deduplicated",
              !.allRecords = acc.records,
              !.duplicates = d.duplicates \o DV_dupEntries(acc)]

\* checkDuplicates() on validator d
DV_checkDuplicatesOn(d) ==
    DV_deduplicated(d, DV_dupLoop([records |-> d.allRecords, seen |-> EmptyObj,
                                   dupKeys |-> <<>>, dupIdx |-> EmptyObj], 1))

\* the project codes of projectCodeMap with more than one normalized name
DV_badCodes(records) ==
    SelectSeq(DV_codes(records), LAMBDA c : DV_inconsistent(records, c))

\* the validator after projectCodeMap.forEach over the inconsistent codes bad
DV_checked(d, bad) ==
    [d EXCEPT
       !.stage = "checked",
       !.allRecords =
           [i \in DOMAIN d.allRecords |->
               IF \E k \in DOMAIN bad : bad[k] = d.allRecords[i].projectCode
               THEN DV_flag(d.allRecords[i])
               ELSE d.allRecords[i]],
       !.inconsistencies = d.inconsistencies \o
           [k \in DOMAIN bad |-> DV_inconsEntry(d.allRecords, bad[k])]]

\* checkInconsistencies() on validator d
DV_checkInconsistenciesOn(d) == DV_checked(d, DV_badCodes(d.allRecords))

\* only the records still tagged Clean are pushed
DV_firstOfKey_cleanOnly(records) ==
    SelectSeq([i \in DOMAIN records |-> i], LAMBDA i : records[i].status = "Clean")

\* the records generateCleanData pushes: a fresh `seen`, every record whose
\* key no earlier record of allRecords carries
DV_firstOfKey(records) ==
    SelectSeq([i \in DOMAIN records |-> i],
              LAMBDA i : \A j \in 1..(i - 1) : DV_key(records[j]) # DV_key(records[i]))

\* generateCleanData() on validator d: cleanRecords is pushed to, never reset
DV_generateCleanDataOn(d) ==
    [d EXCEPT !.stage = "cleaned",
              !.cleanRecords = d.cleanRecords \o DV_firstOfKey(d.allRecords)]

\* the statistics object
DV_statistics(records, clean, total, duplicates, inconsistencies) ==
    [totalRecords             |-> total,
     cleanRecords             |-> Len(clean),
     duplicatesFound          |-> duplicates,
     inconsistenciesFound     |-> inconsistencies,
     cleanWithInconsistencies |->
         Cardinality({k \in DOMAIN clean : records[clean[k]].status = "Inconsistent"}),
     validationRate           |-> DV_rate(Len(clean), total),
     duplicateRate            |-> DV_rate(duplicates, total),
     inconsistencyRate        |-> DV_rate(inconsistencies, total)]

\* calculateStatistics() on validator d
DV_calculateStatisticsOn(d) ==
    [d EXCEPT !.stage = "done",
              !.statistics =
                  DV_statistics(d.allRecords, d.cleanRecords, Len(d.allRecords),
                                DV_countStatus(d.allRecords, "Duplicate"),
                                DV_countStatus(d.allRecords, "Inconsistent"))]

\* process() on validator d
DV_processOn(d) ==
    DV_calculateStatisticsOn(DV_generateCleanDataOn(
        DV_checkInconsistenciesOn(DV_checkDuplicatesOn(DV_loadOn(d)))))

\* process(); it can be called again on the same validator, whose fields it
\* does not reset
DV_process ==
    /\ dv.stage \in {"new", "done"}
    /\ dv' = [DV_processOn(dv) EXCEPT
                 !.stage = IF dv.stage = "new" THEN "done" ELSE "redone"]
    /\ UNCHANGED <<inputs, server, tg, ar, ps, fa>>

\* the /validate-data request repeated: a new DataValidator is constructed
\* and its process() is run
DV_processFresh ==
    /\ dv.stage = "done"
    /\ dv' = [DV_processOn(DV_new) EXCEPT !.stage = "renewed"]
    /\ UNCHANGED <<inputs, server, tg, ar, ps, fa>>

\* loadTimesheetData()
DV_loadTimesheetData ==
    /\ dv.stage = "new"
    /\ dv' = DV_loadOn(dv)
    /\ UNCHANGED <<inputs, server, tg, ar, ps, fa>>

\* checkDuplicates()
DV_checkDuplicates ==
    /\ dv.stage = "loaded"
    /\ dv' = DV_checkDuplicatesOn(dv)
    /\ UNCHANGED <<inputs, server, tg, ar, ps, fa>>

\* checkInconsistencies()
DV_checkInconsistencies ==
    /\ dv.stage = "deduplicated"
    /\ dv' = DV_checkInconsistenciesOn(dv)
    /\ UNCHANGED <<inputs, server, tg, ar, ps, fa>>

\* generateCleanData()
DV_generateCleanData ==
    /\ dv.stage = "checked"
    /\ dv' = DV_generateCleanDataOn(dv)
    /\ UNCHANGED <<inputs, server, tg, ar, ps, fa>>

\* calculateStatistics()
DV_calculateStatistics ==
    /\ dv.stage = "cleaned"
    /\ dv' = DV_calculateStatisticsOn(dv)
    /\ UNCHANGED <<inputs, server, tg, ar, ps, fa>>

\* ------------------------------------------------------------------------
\* ProjectSummaryGenerator (projectSummary.js), ingest
\* ------------------------------------------------------------------------
\* `${date.getFullYear()}-${date.getMonth()}-${date.getDate()}`
PS_dateKey(date) ==
    numToString(getFullYear(date)) \o <<"-">> \o numToString(getMonth(date))
        \o <<"-">> \o numToString(getDate(date))

\* the rows the eachRow callback of loadTimesheetData does not skip: a falsy
\* projectName is one more early return
PS_kept(row, rowIndex) == RowKept(row, rowIndex) /\ Truthy(row.projectName)

\* String(projectName).trim()
PS_project(row) == trim(CellString(row.projectName))

\* worksheet.eachRow of loadTimesheetData: projects[e][p] and workedDays[e]
\* are the Sets of date keys, allProjects the Set of project names
PS_collect(allProjects, rows, kept, dateKey) ==
    LET of(e) == {i \in kept : EmployeeKey(rows[i]) = e}
        emps == {EmployeeKey(rows[i]) : i \in kept}
    IN [projects |->
          [e \in emps |->
              [p \in {PS_project(rows[i]) : i \in of(e)} |->
                  {dateKey[i] : i \in {j \in of(e) : PS_project(rows[j]) = p}}]],
        workedDays |-> [e \in emps |-> {dateKey[i] : i \in of(e)}],
        allProjects |-> allProjects \cup {PS_project(rows[i]) : i \in kept}]

PS_eachRow(allProjects, rows) ==
    PS_collect(allProjects, rows, {i \in DOMAIN rows : PS_kept(rows[i], i)},
               [i \in DOMAIN rows |-> PS_dateKey(rowDate(rows[i]).date)])

PS_new ==
    [stage |-> "new", employeeProjects |-> EmptyObj, allProjects |-> {},
     employeeWorkedDays |-> EmptyObj, percentages |-> EmptyObj, workbook |-> EmptyObj]

\* "Convert Sets to counts"
PS_counted(acc) ==
    [stage |-> "loaded",
     employeeProjects |->
         [e \in DOMAIN acc.projects |->
             [p \in DOMAIN acc.projects[e] |-> Cardinality(acc.projects[e][p])]],
     allProjects |-> acc.allProjects,
     employeeWorkedDays |->
         [e \in DOMAIN acc.workedDays |-> Cardinality(acc.workedDays[e])],
     percentages |-> EmptyObj,
     workbook |-> EmptyObj]

\* loadTimesheetData(): ingest, then every Set is replaced by its size
PS_loadTimesheetData ==
    /\ ps.stage = "new"
    /\ ps' = PS_counted(PS_eachRow(ps.allProjects, sheet))
    /\ UNCHANGED <<inputs, server, tg, ar, dv, fa>>

\* loadTimesheetData() called once more on the same generator: for the first
\* row it keeps, employeeProjects[employeeName] exists, so nothing is
\* initialised, and employeeWorkedDays[employeeName] is the count the first
\* call left there: .add is not a function of a number and the callback
\* throws a TypeError before it changed anything.  With no row kept the call
\* changes nothing and returns.
PS_loadTimesheetDataAgain ==
    /\ ps.stage = "loaded"
    /\ ps' = [ps EXCEPT !.stage =
                 IF \E i \in DOMAIN sheet : PS_kept(sheet[i], i)
                 THEN "failed" ELSE "reloaded"]
    /\ UNCHANGED <<inputs, server, tg, ar, dv, fa>>

\* ------------------------------------------------------------------------
\* Numbers: the IEEE 754 doubles of the percentage arithmetic
\* ------------------------------------------------------------------------
\* A non-negative double is bits * 2^exp, bits being its 53-bit significand
\* with the least significant bit first; zero has no bits.
Precision == 53

\* a quotient is developed GuardChunks times ChunkBits fraction bits far
\* before it is rounded; enough for quotients of day counts, which are at
\* least 1/31
ChunkBits == 16

GuardChunks == 4

F_zero == [bits |-> <<>>, exp |-> 0]

\* the bits of the natural number n, least significant first
RECURSIVE BitsOf(_)
BitsOf(n) == IF n = 0 THEN <<>> ELSE <<n % 2>> \o BitsOf(n \div 2)

\* the natural number of a short bit string
RECURSIVE NumOf(_)
NumOf(b) == IF b = <<>> THEN 0 ELSE Head(b) + 2 * NumOf(Tail(b))

\* b without its leading zero bits
Strip(b) == SubSeq(b, 1, Cardinality({i \in DOMAIN b : \E j \in i..Len(b) : b[j] = 1}))

Zeros(n) == [i \in 1..n |-> 0]

\* bit i of b, zero above its length
Bit(b, i) == IF i \in DOMAIN b THEN b[i] ELSE 0

\* bit strings are added, subtracted and multiplied limb by limb
LimbBits == 15

Base == 2^LimbBits

Low(l) == IF l = <<>> THEN 0 ELSE Head(l)

Rest(l) == IF l = <<>> THEN l ELSE Tail(l)

ToLimbs(b) ==
    [i \in 1..((Len(b) + LimbBits - 1) \div LimbBits) |->
        NumOf([j \in 1..LimbBits |-> Bit(b, (i - 1) * LimbBits + j)])]

FromLimbs(l) ==
    [i \in 1..(Len(l) * LimbBits) |->
        (l[(i - 1) \div LimbBits + 1] \div 2^((i - 1) % LimbBits)) % 2]

RECURSIVE AddLimbs(_, _, _)
AddLimbs(a, b, carry) ==
    IF a = <<>> /\ b = <<>> THEN <<carry>>
    ELSE <<(Low(a) + Low(b) + carry) % Base>>
             \o AddLimbs(Rest(a), Rest(b), (Low(a) + Low(b) + carry) \div Base)

RECURSIVE SubLimbs(_, _, _)
SubLimbs(a, b, borrow) ==
    IF a = <<>> THEN <<>>
    ELSE <<(Head(a) + Base - Low(b) - borrow) % Base>>
             \o SubLimbs(Tail(a), Rest(b), IF Head(a) < Low(b) + borrow THEN 1 ELSE 0)

RECURSIVE MulLimbs(_, _, _)
MulLimbs(a, k, carry) ==
    IF a = <<>> THEN <<carry>>
    ELSE <<(Head(a) * k + carry) % Base>>
             \o MulLimbs(Tail(a), k, (Head(a) * k + carry) \div Base)

\* a + b
AddBits(a, b) == FromLimbs(AddLimbs(ToLimbs(a), ToLimbs(b), 0))

\* a - b, for a >= b
SubBits(a, b) == FromLimbs(SubLimbs(ToLimbs(a), ToLimbs(b), 0))

\* b * k for a factor k below Base
MulBits(b, k) == FromLimbs(MulLimbs(ToLimbs(b), k, 0))

\* a < b as natural numbers
LessBits(a, b) ==
    LET x == Strip(a)
        y == Strip(b)
    IN \/ Len(x) < Len(y)
       \/ /\ Len(x) = Len(y)
          /\ \E i \in DOMAIN x :
                /\ x[i] < y[i]
                /\ \A j \in (i + 1)..Len(x) : x[j] = y[j]

\* b * 2^exp rounded to the nearest double, ties to the even significand;
\* b has no leading zero bit
RECURSIVE F_round(_, _)
F_round(b, exp) ==
    LET drop == Len(b) - Precision
    IN IF b = <<>> THEN F_zero
       ELSE IF drop <= 0 THEN [bits |-> Zeros(-drop) \o b, exp |-> exp + drop]
       ELSE LET kept   == SubSeq(b, drop + 1, Len(b))
                half   == b[drop] = 1
                sticky == \E i \in 1..(drop - 1) : b[i] = 1
            IN F_round(IF half /\ (sticky \/ kept[1] = 1)
                       THEN Strip(AddBits(kept, <<1>>)) ELSE kept,
                       exp + drop)

\* the double of a natural number
F_number(n) == F_round(BitsOf(n), 0)

\* the first k chunks of bits of the binary fraction r / n, for r < n, below
\* them one bit that tells whether the fraction goes on
RECURSIVE FractionBits(_, _, _)
FractionBits(r, n, k) ==
    IF k = 0 THEN <<IF r # 0 THEN 1 ELSE 0>>
    ELSE FractionBits((2^ChunkBits * r) % n, n, k - 1)
             \o [i \in 1..ChunkBits |-> Bit(BitsOf((2^ChunkBits * r) \div n), i)]

\* d / n for natural numbers d and n
F_div(d, n) ==
    F_round(Strip(FractionBits(d % n, n, GuardChunks) \o BitsOf(d \div n)),
            -(GuardChunks * ChunkBits + 1))

\* x * k for a natural number k
F_times(x, k) == F_round(Strip(MulBits(x.bits, k)), x.exp)

\* the significand of x over the exponent e <= x.exp
F_shifted(x, e) == IF x.bits = <<>> THEN <<>> ELSE Zeros(x.exp - e) \o x.bits

F_lowExp(x, y) ==
    CASE x.bits = <<>>   -> y.exp
      [] y.bits = <<>>   -> x.exp
      [] x.exp <= y.exp  -> x.exp
      [] OTHER           -> y.exp

\* x + y
F_add(x, y) ==
    F_round(Strip(AddBits(F_shifted(x, F_lowExp(x, y)),
                          F_shifted(y, F_lowExp(x, y)))),
            F_lowExp(x, y))

\* x < y
F_less(x, y) ==
    LessBits(F_shifted(x, F_lowExp(x, y)), F_shifted(y, F_lowExp(x, y)))

\* x - y for x >= y
F_minus(x, y) ==
    F_round(Strip(SubBits(F_shifted(x, F_lowExp(x, y)),
                          F_shifted(y, F_lowExp(x, y)))),
            F_lowExp(x, y))

\* Math.max(0, k - x) for a natural number k
F_maxZeroOf(k, x) ==
    IF F_less(x, F_number(k)) THEN F_minus(F_number(k), x) ELSE F_zero

\* x.toFixed(1) for x below 2^52, as the number of tenths it shows: the
\* integer nearest to 10 x, the larger one of two
F_toFixed1(x) ==
    LET tenfold == Strip(MulBits(x.bits, 10))
        padded  == tenfold \o Zeros(-x.exp - Len(tenfold))
    IN IF x.bits = <<>> THEN 0
       ELSE NumOf(SubSeq(padded, 1 - x.exp, Len(padded))) + padded[-x.exp]

\* the UTF-16 code units the worksheets use, in ascending order
CodeUnits ==
    <<" ", "-", ".", "/", "0", "1", "2", "3", "4", "5", "6", "7", "8", "9",
      "A", "B", "C", "D", "E", "F", "G", "H", "I", "J", "K", "L", "M", "N", "O",
      "P", "Q", "R", "S", "T", "U", "V", "W", "X", "Y", "Z", "_",
      "a", "b", "c", "d", "e", "f", "g", "h", "i", "j", "k", "l", "m", "n", "o",
      "p", "q", "r", "s", "t", "u", "v", "w", "x", "y", "z">>

charCodeAt(str, i) == CHOOSE c \in DOMAIN CodeUnits : CodeUnits[c] = str[i]

\* the default comparison of Array.prototype.sort: by code units
StringLess(a, b) ==
    \/ Len(a) < Len(b) /\ SubSeq(b, 1, Len(a)) = a
    \/ \E i \in (DOMAIN a) \cap (DOMAIN b) :
          /\ SubSeq(a, 1, i - 1) = SubSeq(b, 1, i - 1)
          /\ charCodeAt(a, i) < charCodeAt(b, i)

\* Array.from(set).sort()
RECURSIVE sort(_)
sort(S) ==
    IF S = {} THEN <<>>
    ELSE LET first == CHOOSE x \in S : \A y \in S \ {x} : StringLess(x, y)
         IN <<first>> \o sort(S \ {first})

\* ------------------------------------------------------------------------
\* ProjectSummaryGenerator, calculatePercentages and the report sheets
\* ------------------------------------------------------------------------
\* the sum of f over the keys S
RECURSIVE SumOver(_, _)
SumOver(f, S) ==
    IF S = {} THEN 0
    ELSE LET x == CHOOSE y \in S : TRUE IN f[x] + SumOver(f, S \ {x})

\* totalDays > 0 ? (projectDays / totalDays) * 100 : 0, kept as the exact
\* fraction num / den
PS_percentage(projectDays, totalDays) ==
    IF totalDays > 0 THEN [num |-> 100 * projectDays, den |-> totalDays]
    ELSE [num |-> 0, den |-> 1]

\* this.employeeProjects[employee][project] || 0
PS_projectDays(projects, project) ==
    IF project \in DOMAIN projects THEN projects[project] ELSE 0

\* results[employee]: every project of allProjects gets days and percentage,
\* totalPercentage is their sum (all of them over the denominator totalDays)
PS_result(projects, allProjects, totalDays) ==
    [projects |->
        [p \in allProjects |->
            [days       |-> PS_projectDays(projects, p),
             percentage |-> PS_percentage(PS_projectDays(projects, p), totalDays)]],
     totalDays |-> totalDays,
     totalPercentage |->
        PS_percentage(SumOver([p \in allProjects |-> PS_projectDays(projects, p)],
                              allProjects), totalDays)]

\* calculatePercentages() on generator g
PS_calculatePercentages(g) ==
    [e \in DOMAIN g.employeeProjects |->
        PS_result(g.employeeProjects[e], g.allProjects, g.employeeWorkedDays[e])]

\* pct.toFixed(1), in tenths of a percent
PS_toFixed1(pct) == toFixed1(pct.num, 100 * pct.den)

\* Math.max(0, 100 - rowTotal) as a fraction over rowTotal's denominator
PS_unassigned(rowTotal) ==
    [num |-> Max(0, 100 * rowTotal.den - rowTotal.num), den |-> rowTotal.den]

\* the Total cell's colour
PS_totalColour(mode, shownTotal) ==
    CASE mode = "highlighted" ->
            IF shownTotal - 1000 > 1 \/ 1000 - shownTotal > 1 THEN "red" ELSE "green"
      [] mode = "unassigned"  -> "green"
      [] OTHER                -> "none"

\* (projectDays / totalDays) * 100 as the double calculatePercentages stores
PS_double(projectDays, totalDays) ==
    IF totalDays > 0 THEN F_times(F_div(projectDays, totalDays), 100) ELSE F_zero

\* rowTotal += pct over the columns of createSheet, as doubles
RECURSIVE PS_rowTotal(_, _, _)
PS_rowTotal(empData, projects, rowTotal) ==
    IF projects = <<>> THEN rowTotal
    ELSE PS_rowTotal(empData, Tail(projects),
                     F_add(rowTotal, PS_double(empData.projects[Head(projects)].days,
                                               empData.totalDays)))

\* unassigned > 0 ? `${unassigned.toFixed(1)}%` : '0%'
PS_unassignedText(unassigned) ==
    IF unassigned.bits # <<>>
    THEN numToString(F_toFixed1(unassigned) \div 10) \o <<".">>
             \o numToString(F_toFixed1(unassigned) % 10) \o <<"%">>
    ELSE <<"0", "%">>

\* the Unassigned cell of the with-unassigned mode: the double rowTotal the
\* loop over the columns leaves, and the text pushed for Math.max(0, 100 -
\* rowTotal)
PS_bucket(rowTotal) ==
    [rowTotal |-> rowTotal, text |-> PS_unassignedText(F_maxZeroOf(100, rowTotal))]

\* one data row of createSheet: the project cells (by column header), the
\* Unassigned cell of the with-unassigned mode, and the Total cell, each as
\* the number of tenths of a percent its text shows; bucket is the Unassigned
\* cell as the doubles give it
PS_row(empData, mode, rowTotal) ==
    [cells      |-> [p \in DOMAIN empData.projects |->
                        PS_toFixed1(empData.projects[p].percentage)],
     bucket     |-> IF mode = "unassigned"
                    THEN PS_bucket(PS_rowTotal(empData, sort(DOMAIN empData.projects),
                                               F_zero))
                    ELSE [rowTotal |-> F_zero, text |-> <<>>],
     unassigned |-> IF mode = "unassigned" THEN PS_toFixed1(PS_unassigned(rowTotal))
                    ELSE 0,
     total      |-> IF mode = "unassigned" THEN 1000 ELSE PS_toFixed1(rowTotal),
     colour     |-> PS_totalColour(mode, IF mode = "unassigned" THEN 1000
                                         ELSE PS_toFixed1(rowTotal))]

\* createSheet(sheet, employees, projects, percentages, mode): one row per
\* employee; rowTotal, the sum of the project percentages, is totalPercentage
PS_createSheet(percentages, mode) ==
    [e \in DOMAIN percentages |->
        PS_row(percentages[e], mode, percentages[e].totalPercentage)]

\* the generator g after generateExcelReport computed percentages and wrote
\* the three sheets
PS_reported(g, percentages) ==
    [g EXCEPT !.stage = "reported",
              !.percentages = percentages,
              !.workbook = [Highlighted    |-> PS_createSheet(percentages, "highlighted"),
                            WithUnassigned |-> PS_createSheet(percentages, "unassigned"),
                            Raw            |-> PS_createSheet(percentages, "raw")]]

\* generateExcelReport(outputPath): calculatePercentages(), then createSheet
\* for the modes highlighted, unassigned and raw
PS_generateExcelReport ==
    /\ ps.stage = "loaded"
    /\ ps' = PS_reported(ps, PS_calculatePercentages(ps))
    /\ UNCHANGED <<inputs, server, tg, ar, dv, fa>>

\* ------------------------------------------------------------------------
\* FoodAllowanceCalculator, ingest
\* ------------------------------------------------------------------------
AnnualLeave == <<"a","n","n","u","a","l"," ","l","e","a","v","e">>

\* projectName.toLowerCase() exists for strings only: a truthy project name
\* that is not a string makes the callback throw a TypeError
FA_throws(row) == Truthy(row.projectName) /\ row.projectName.t # "str"

\* the entry the eachRow callback of loadTimesheetData pushes for a row it keeps
FA_entry(row, rowIndex) ==
    [date          |-> rowDate(row).date,
     projectCode   |-> OrDefault(row.projectCode, <<>>),
     projectName   |-> OrDefault(row.projectName, <<>>),
     isAnnualLeave |-> /\ Truthy(row.projectName)
                       /\ includes(toLowerCase(row.projectName.s), AnnualLeave)]

\* the rows before the first row of the set bad (all of them when it is empty)
FA_before(rows, bad) ==
    IF bad = {} THEN rows
    ELSE SubSeq(rows, 1, (CHOOSE i \in bad : \A j \in bad : i <= j) - 1)

\* the rows visited before the callback throws (all of them when it does not)
FA_visited(rows) ==
    FA_before(rows, {i \in DOMAIN rows : RowKept(rows[i], i) /\ FA_throws(rows[i])})

\* worksheet.eachRow of loadTimesheetData
FA_push(data, rows, visited) ==
    [data  |-> EachRowPush(data, visited, KeptRows(visited), KeyOfRows(visited),
                           [i \in DOMAIN visited |-> FA_entry(visited[i], i)]),
     error |-> visited # rows]

FA_eachRow(data, rows) == FA_push(data, rows, FA_visited(rows))

\* the constructor; policies tells which of the policy tables have been read
FA_new ==
    [stage |-> "new", employeeData |-> EmptyObj, error |-> FALSE,
     policies |-> "none", projectPolicies |-> EmptyObj,
     employeePolicies |-> EmptyObj, foodAllowanceSummary |-> EmptyObj,
     workbook |-> EmptyObj]

\* the calculator obj after the ingest loop
FA_loaded(obj, acc) ==
    [obj EXCEPT !.stage = IF acc.error THEN "failed" ELSE "loaded",
                !.employeeData = acc.data,
                !.error = acc.error]

\* loadTimesheetData(); a throw inside the callback ends the run
FA_loadTimesheetData ==
    /\ fa.stage = "new"
    /\ fa' = FA_loaded(fa, FA_eachRow(fa.employeeData, sheet))
    /\ UNCHANGED <<inputs, server, tg, ar, dv, ps>>

\* ------------------------------------------------------------------------
\* FoodAllowanceCalculator, policies and calculateFoodAllowance
\* ------------------------------------------------------------------------
Yes == <<"y", "e", "s">>

FoodPolicy1 == <<"F","o","o","d"," ","P","o","l","i","c","y"," ","1">>

FoodPolicy2 == <<"F","o","o","d"," ","P","o","l","i","c","y"," ","2">>

PolicyRow(code, name, location, p1, p2) ==
    [projectCode |-> code, projectName |-> name, location |-> location,
     policy1 |-> p1, policy2 |-> p2]

EmployeeRow(name, amount, policy) ==
    [employeeName |-> name, amount |-> amount, policy |-> policy]

\* policy && policy.toString().toLowerCase() === 'yes', as a truth value
FA_isYes(c) == Truthy(c) /\ toLowerCase(CellString(c)) = Yes

\* obj[key] = entry for every row of `good`, in row order: a later row of a
\* key replaces an earlier one
EachRowAssign(obj, good, key, entry) ==
    [k \in (DOMAIN obj) \cup {key[i] : i \in good} |->
        IF \E i \in good : key[i] = k
        THEN entry[CHOOSE i \in good :
                      key[i] = k /\ \A j \in good : key[j] = k => j <= i]
        ELSE obj[k]]

\* worksheet.eachRow of loadProjectPolicies
FA_projectPolicies(obj, rows) ==
    EachRowAssign(obj, {i \in 2..Len(rows) : Truthy(rows[i].projectCode)},
                  [i \in DOMAIN rows |-> CellString(rows[i].projectCode)],
                  [i \in DOMAIN rows |->
                      [projectName |-> OrDefault(rows[i].projectName, <<>>),
                       location    |-> OrDefault(rows[i].location, <<>>),
                       policy1     |-> FA_isYes(rows[i].policy1),
                       policy2     |-> FA_isYes(rows[i].policy2)]])

\* parseFloat(amount) || 0 for a number cell, a text cell or an empty cell
FA_amount(c) ==
    CASE c.t = "num" -> c.n
      [] c.t = "str" -> Max(0, parseInt(c.s))
      [] OTHER       -> 0

\* a row with a name and no policy accepted as well
FA_employeePolicies_nameOnly(obj, rows) ==
    EachRowAssign(obj, {i \in 2..Len(rows) : Truthy(rows[i].employeeName)},
                  [i \in DOMAIN rows |-> CellString(rows[i].employeeName)],
                  [i \in DOMAIN rows |->
                      [policy |-> CellString(rows[i].policy),
                       amount |-> FA_amount(rows[i].amount)]])

\* worksheet.eachRow of loadEmployeePolicies
FA_employeePolicies(obj, rows) ==
    EachRowAssign(obj,
                  {i \in 2..Len(rows) :
                      Truthy(rows[i].employeeName) /\ Truthy(rows[i].policy)},
                  [i \in DOMAIN rows |-> CellString(rows[i].employeeName)],
                  [i \in DOMAIN rows |->
                      [policy |-> CellString(rows[i].policy),
                       amount |-> FA_amount(rows[i].amount)]])

\* either flag of the project counted, whatever the employee's policy
FA_matches_anyFlag(policy, projectPolicies, projectCode) ==
    /\ projectCode \in DOMAIN projectPolicies
    /\ policy \in {FoodPolicy1, FoodPolicy2}
    /\ projectPolicies[projectCode].policy1 \/ projectPolicies[projectCode].policy2

\* the project of an entry counts for the employee's policy
FA_matches(policy, projectPolicies, projectCode) ==
    /\ projectCode \in DOMAIN projectPolicies
    /\ \/ policy = FoodPolicy1 /\ projectPolicies[projectCode].policy1
       \/ policy = FoodPolicy2 /\ projectPolicies[projectCode].policy2

\* the dailyBreakdown entry of one date; reason is empty where the code sets
\* none, eligibleProjects is empty where the code sets none
FA_breakdown(dateStr, hasAnnualLeave, projects, eligibleProjects) ==
    [date             |-> dateStr,
     projects         |-> projects,
     eligible         |-> ~hasAnnualLeave /\ eligibleProjects # <<>>,
     reason           |-> IF hasAnnualLeave THEN "Annual Leave"
                          ELSE IF eligibleProjects # <<>> THEN ""
                          ELSE "Project not eligible",
     eligibleProjects |-> IF hasAnnualLeave THEN <<>> ELSE eligibleProjects]

\* the entries whose key is dateStr, in entry order
FA_dayEntries(entries, dateStr) ==
    SelectSeq(entries, LAMBDA e : formatDateLocal(e.date) = dateStr)

\* the body of the `for (const dateStr in dateMap)` loop
FA_dayOf(dateStr, dayEntries, policy, projectPolicies) ==
    FA_breakdown(dateStr,
                 \E i \in DOMAIN dayEntries : dayEntries[i].isAnnualLeave,
                 [i \in DOMAIN dayEntries |-> dayEntries[i].projectCode],
                 SelectSeq([i \in DOMAIN dayEntries |-> dayEntries[i].projectCode],
                           LAMBDA c : FA_matches(policy, projectPolicies, c)))

\* the summary entry built from the breakdown
FA_summaryOf(employeePolicy, dailyBreakdown, eligibleDays) ==
    [policy         |-> employeePolicy.policy,
     amountPerDay   |-> employeePolicy.amount,
     eligibleDays   |-> eligibleDays,
     totalAmount    |-> eligibleDays * employeePolicy.amount,
     dailyBreakdown |-> dailyBreakdown]

\* the breakdown of the keys of dateMap, in insertion order
FA_dailyBreakdown(entries, dates, policy, projectPolicies) ==
    [k \in DOMAIN dates |->
        FA_dayOf(dates[k], FA_dayEntries(entries, dates[k]), policy, projectPolicies)]

\* one day counted for every eligible record
FA_eligibleDays_perRecord(dailyBreakdown) ==
    Cardinality({p \in (DOMAIN dailyBreakdown) \X (1..MaxRows + 1) :
                    /\ dailyBreakdown[p[1]].eligible
                    /\ p[2] <= Len(dailyBreakdown[p[1]].eligibleProjects)})

\* eligibleDays++ for every eligible date
FA_eligibleDays(dailyBreakdown) ==
    Cardinality({k \in DOMAIN dailyBreakdown : dailyBreakdown[k].eligible})

\* the body of the employee loop for an employee with a policy
FA_summaryFrom(employeePolicy, dailyBreakdown) ==
    FA_summaryOf(employeePolicy, dailyBreakdown, FA_eligibleDays(dailyBreakdown))

FA_employeeSummary(entries, employeePolicy, projectPolicies) ==
    FA_summaryFrom(employeePolicy,
        FA_dailyBreakdown(entries,
            Distinct([i \in DOMAIN entries |-> formatDateLocal(entries[i].date)]),
            employeePolicy.policy, projectPolicies))

\* calculateFoodAllowance() on calculator obj: employees without an entry in
\* employeePolicies are passed over
FA_calculateOn(obj) ==
    [e \in (DOMAIN obj.foodAllowanceSummary)
              \cup ((DOMAIN obj.employeeData) \cap (DOMAIN obj.employeePolicies)) |->
        IF e \in (DOMAIN obj.employeeData) \cap (DOMAIN obj.employeePolicies)
        THEN FA_employeeSummary(obj.employeeData[e], obj.employeePolicies[e],
                                obj.projectPolicies)
        ELSE obj.foodAllowanceSummary[e]]

\* loadProjectPolicies()
FA_loadProjectPolicies ==
    /\ fa.stage = "new"
    /\ fa.policies = "none"
    /\ fa' = [fa EXCEPT !.policies = "project",
                        !.projectPolicies =
                            FA_projectPolicies(fa.projectPolicies, projectPolicySheet)]
    /\ UNCHANGED <<inputs, server, tg, ar, dv, ps>>

\* loadEmployeePolicies()
FA_loadEmployeePolicies ==
    /\ fa.stage = "new"
    /\ fa.policies = "project"
    /\ fa' = [fa EXCEPT !.policies = "both",
                        !.employeePolicies =
                            FA_employeePolicies(fa.employeePolicies, employeePolicySheet)]
    /\ UNCHANGED <<inputs, server, tg, ar, dv, ps>>

\* calculateFoodAllowance(), after the three loaders
FA_calculateFoodAllowance ==
    /\ fa.stage = "loaded"
    /\ fa.policies = "both"
    /\ fa' = [fa EXCEPT !.stage = "calculated",
                        !.foodAllowanceSummary = FA_calculateOn(fa)]
    /\ UNCHANGED <<inputs, server, tg, ar, dv, ps>>

\* ------------------------------------------------------------------------
\* Inputs: the uploaded worksheet and the request parameters
\* ------------------------------------------------------------------------
NameA == <<"A">>

NameB == <<"B">>

CodeP1 == <<"P", "1">>

CodeP2 == <<"P", "2">>

ProjSite == <<"S", "i", "t", "e">>

HeaderRow ==
    Row(StrCell(<<"C","o","d","e">>), StrCell(<<"N","a","m","e">>),
        StrCell(<<"D","a","t","e">>), StrCell(<<"E","m","p">>), StrCell(<<"B","y">>))

\* target months of 28, 29, 30 and 31 days
Targets ==
    {[month |-> 2, year |-> 2026], [month |-> 2, year |-> 2024],
     [month |-> 4, year |-> 2024], [month |-> 3, year |-> 2024],
     [month |-> 5, year |-> 2024]}

\* the local calendar day of day d of target month t
DayOf(t, d) == DaysFromCivil(t.year, t.month, d)

\* the first day 1..7 of target month t that falls on weekday wd
FirstWeekday(t, wd) == CHOOSE d \in 1..7 : (DayOf(t, d) + 4) % 7 = wd

\* all sequences over S of length at most n
SeqsUpTo(S, n) == UNION {[1..k -> S] : k \in 0..n}

\* a month of regular attendance of employee A: one row per day of the
\* target month that the pattern selects
Patterns == {"none", "everyDay", "exceptFridays", "exceptFriSat"}

Selected(pat, wd) ==
    CASE pat = "none"          -> FALSE
      [] pat = "everyDay"      -> TRUE
      [] pat = "exceptFridays" -> wd # 5
      [] pat = "exceptFriSat"  -> wd \notin {5, 6}

PatternRows(t, pat) ==
    LET n    == CivilFromDays(DaysFromCivil(t.year, t.month + 1, 1) - 1).date
        days == Indices(n, {d \in 1..n : Selected(pat, (DayOf(t, d) + 4) % 7)})
    IN [k \in DOMAIN days |->
          Row(StrCell(CodeP1), StrCell(ProjSite), DateCell(DayOf(t, days[k])),
              StrCell(NameA), NullCell)]

\* free rows of the reconciliation runs: A or B on the first Friday (a Date
\* cell), A on the first Saturday (a 'YYYY-MM-DD' text cell)
ReconRows(t) ==
    {Row(StrCell(CodeP2), StrCell(ProjSite), DateCell(DayOf(t, FirstWeekday(t, 5))),
         StrCell(e), NullCell) : e \in {NameA, NameB}}
    \cup
    {Row(StrCell(CodeP2), StrCell(ProjSite),
         StrCell(formatDateLocal(ValidDate(DayOf(t, FirstWeekday(t, 6))))),
         StrCell(NameA), NullCell)}

\* the regular attendance patterns are tried on the 28-day month and on a
\* 31-day month with five Fridays and four Saturdays
PatternTargets == {[month |-> 2, year |-> 2026], [month |-> 5, year |-> 2024]}

\* a request without policy worksheets
NoPolicySheets == projectPolicySheet = <<>> /\ employeePolicySheet = <<>>

\* an upload with one worksheet, read by report objects outside the web server
OneUpload ==
    /\ worksheets = 1
    /\ outputDir = <<>>
    /\ requests = <<>>

FreshObjects ==
    /\ tg = TG_new
    /\ ar = AR_new
    /\ dv = DV_new
    /\ ps = PS_new
    /\ fa = FA_new

\* ------------------------------------------------------------------------
\* Reconciliation runs: TimesheetGenerator and AbsenceReportGenerator over
\* one upload
\* ------------------------------------------------------------------------
InitRecon ==
    \E t \in Targets, pat \in Patterns, sf \in {{}, {NameA}}, west \in BOOLEAN :
        \E free \in SeqsUpTo(ReconRows(t), MaxRows) :
            /\ pat = "none" \/ t \in PatternTargets
            /\ sheet = <<HeaderRow>> \o PatternRows(t, pat) \o free
            /\ month = t.month
            /\ year = t.year
            /\ satFriEmployees = sf
            /\ tzWest = west
            /\ NoPolicySheets
            /\ OneUpload
            /\ FreshObjects

NextRecon ==
    \/ TG_processExcel
    \/ AR_loadTimesheetData
    \/ AR_calculatePayrunAndAbsence

SpecRecon == InitRecon /\ [][NextRecon]_vars

\* ------------------------------------------------------------------------
\* Reference quantities of the reconciliation claims, read off the worksheet
\* ------------------------------------------------------------------------
\* the data rows whose name and date are present and whose date is valid
\* and inside the target month
KeptIdx == {i \in 2..Len(sheet) : RowKept(sheet[i], i)}

\* the employees with at least one in-window record (verbatim names)
Employees == {CellString(sheet[i].employeeName) : i \in KeptIdx}

\* the distinct calendar days employee e worked
WorkedDates(e) ==
    {rowDate(sheet[i]).date.day :
        i \in {j \in KeptIdx : CellString(sheet[j].employeeName) = e}}

WeekdayOf(d) == (d + 4) % 7

\* the calendar days of the target month
MonthDays ==
    {d \in DaysFromCivil(year, month, 1)..(DaysFromCivil(year, month, 1) + 30) :
        CivilFromDays(d).month = month}

RefD == Cardinality(MonthDays)

RefF == Cardinality({d \in MonthDays : WeekdayOf(d) = 5})

RefS == Cardinality({d \in MonthDays : WeekdayOf(d) = 6})

RefW(e) == Cardinality(WorkedDates(e))

RefWf(e) == Cardinality({d \in WorkedDates(e) : WeekdayOf(d) = 5})

RefWs(e) == Cardinality({d \in WorkedDates(e) : WeekdayOf(d) = 6})

\* the absence the reconciliation rule prescribes for employee e
RefAbsence(e) ==
    IF e \in satFriEmployees
    THEN Max(0, RefD - RefW(e) - (RefF + RefS - RefWf(e) - RefWs(e)))
    ELSE Max(0, RefD - RefW(e) - (RefF - RefWf(e)))

\* ------------------------------------------------------------------------
\* Claims C1..C4: the reconciler
\* ------------------------------------------------------------------------
\* C1: for every employee with at least one in-window record, the absence of
\* both reconcilers equals max(0, D - W - (F - wf)) for a Friday-only
\* employee and max(0, D - W - (F + S - wf - ws)) for a Friday+Saturday
\* employee, W, wf and ws counting distinct worked dates.
C1_AbsenceFormula ==
    /\ tg.stage = "processed" =>
          /\ DOMAIN tg.employeeSummaries = Employees
          /\ \A e \in DOMAIN tg.employeeSummaries :
                tg.employeeSummaries[e].totalAbsentDays = RefAbsence(e)
    /\ ar.stage = "calculated" =>
          /\ DOMAIN ar.payrunSummary = Employees
          /\ \A e \in DOMAIN ar.payrunSummary :
                ar.payrunSummary[e].absence = RefAbsence(e)

\* C2: workedDays, workedFridays and workedSaturdays count distinct calendar
\* dates, not records, so workedFridays <= F and workedSaturdays <= S for
\* every employee.
C2_DistinctDates ==
    /\ tg.stage = "processed" =>
          \A e \in DOMAIN tg.employeeSummaries :
              /\ tg.employeeSummaries[e].workedFridays = RefWf(e)
              /\ tg.employeeSummaries[e].workedSaturdays = RefWs(e)
              /\ tg.employeeSummaries[e].workedFridays <= RefF
              /\ tg.employeeSummaries[e].workedSaturdays <= RefS
    /\ ar.stage = "calculated" =>
          \A e \in DOMAIN ar.payrunSummary :
              /\ ar.payrunSummary[e].workedDays = RefW(e)
              /\ ar.payrunSummary[e].workedFridays = RefWf(e)
              /\ ar.payrunSummary[e].workedSaturdays = RefWs(e)
              /\ ar.payrunSummary[e].workedFridays <= RefF
              /\ ar.payrunSummary[e].workedSaturdays <= RefS

\* C3: in every employee summary payrunDays = 30 - absence, whatever the
\* length of the target month.
C3_PayrunThirty ==
    /\ \A e \in DOMAIN tg.employeeSummaries :
          tg.employeeSummaries[e].totalPayrunDays
              = 30 - tg.employeeSummaries[e].totalAbsentDays
    /\ \A e \in DOMAIN ar.payrunSummary :
          ar.payrunSummary[e].payrunDays = 30 - ar.payrunSummary[e].absence

\* C3 witness: in a month that does not have 30 days, a Friday-only employee
\* with absence 0 has 30 payrun days in both reports.
C3_Witness ==
    /\ RefD # 30
    /\ \E e \in (DOMAIN tg.employeeSummaries) \cap (DOMAIN ar.payrunSummary) :
          /\ e \notin satFriEmployees
          /\ tg.employeeSummaries[e].totalAbsentDays = 0
          /\ tg.employeeSummaries[e].totalPayrunDays = 30
          /\ ar.payrunSummary[e].absence = 0
          /\ ar.payrunSummary[e].payrunDays = 30

\* C4: the absence stored in an employee summary is never negative.
C4_AbsenceNonNegative ==
    /\ \A e \in DOMAIN tg.employeeSummaries :
          tg.employeeSummaries[e].totalAbsentDays >= 0
    /\ \A e \in DOMAIN ar.payrunSummary :
          ar.payrunSummary[e].absence >= 0

\* C4 witness: an employee of the absence report whose unclamped absence is
\* negative (every day of a month with more Fridays than Saturdays worked, the
\* date keys read back one weekday early) and whose stored absence is 0.
C4_Witness ==
    \E e \in DOMAIN ar.payrunSummary :
        /\ AR_rawAbsence(RefD, RefF, RefS, RefW(e),
                         ar.payrunSummary[e].workedFridays,
                         ar.payrunSummary[e].workedSaturdays,
                         ar.payrunSummary[e].isSatFriEmployee) < 0
        /\ ar.payrunSummary[e].absence = 0

\* ------------------------------------------------------------------------
\* Ingest runs: the five reports read one upload for March 2024
\* ------------------------------------------------------------------------
IngestTarget == [month |-> 3, year |-> 2024]

NameASpace == <<"A", " ">>

\* the Excel serial number of local calendar day d
Serial(d) == d + 25569

\* rows the ingest keeps
IngestGoodRows ==
    {Row(StrCell(CodeP1), StrCell(ProjSite), DateCell(DayOf(IngestTarget, 1)),
         StrCell(NameA), StrCell(NameB)),
     Row(NullCell, StrCell(<<>>), StrCell(<<"2","0","2","4","/","3","/","4">>),
         StrCell(NameASpace), NullCell),
     Row(StrCell(CodeP1), NumCell(7), NumCell(Serial(DayOf(IngestTarget, 5))),
         StrCell(NameA), NullCell)}

\* rows the ingest drops, and one whose fate depends on the time zone (the
\* serial number of the first day of the month)
IngestDefectiveRows ==
    {Row(StrCell(CodeP1), StrCell(ProjSite), DateCell(DayOf(IngestTarget, 1)),
         NullCell, NullCell),
     Row(StrCell(CodeP1), NumCell(7), NullCell, StrCell(NameA), NullCell),
     Row(StrCell(CodeP1), NumCell(7), StrCell(<<"n","/","a">>), StrCell(NameA), NullCell),
     Row(StrCell(CodeP1), StrCell(ProjSite), BoolCell, StrCell(NameA), NullCell),
     Row(StrCell(CodeP1), StrCell(ProjSite), DateCell(DayOf(IngestTarget, 1) - 1),
         StrCell(NameA), NullCell),
     Row(StrCell(CodeP1), StrCell(ProjSite),
         StrCell(<<"2","0","2","3","-","0","3","-","0","1">>), StrCell(NameA), NullCell),
     Row(StrCell(CodeP1), StrCell(ProjSite), NumCell(Serial(DayOf(IngestTarget, 1))),
         StrCell(NameB), NullCell)}

InitIngest ==
    \E west \in BOOLEAN :
        \E rows \in SeqsUpTo(IngestGoodRows \cup IngestDefectiveRows, MaxRows) :
            /\ sheet = <<HeaderRow>> \o rows
            /\ month = IngestTarget.month
            /\ year = IngestTarget.year
            /\ satFriEmployees = {}
            /\ tzWest = west
            /\ NoPolicySheets
            /\ OneUpload
            /\ FreshObjects

NextIngest ==
    \/ TG_processExcel
    \/ AR_loadTimesheetData
    \/ DV_loadTimesheetData
    \/ PS_loadTimesheetData
    \/ FA_loadTimesheetData

SpecIngest == InitIngest /\ [][NextIngest]_vars

\* ------------------------------------------------------------------------
\* Reference quantities of the ingest claims, read off the worksheet
\* ------------------------------------------------------------------------
\* a cell left empty
MissingCell(c) == c.t = "null" \/ (c.t = "str" /\ c.s = <<>>)

\* the date a row's date cell denotes
DateOfRow(row) == parseDateValue(row.dateValue).date

\* calendar day d lies in the target month of the target year
InTargetMonth(d) ==
    /\ DaysFromCivil(year, month, 1) <= d
    /\ d < DaysFromCivil(IF month = 12 THEN year + 1 ELSE year,
                         IF month = 12 THEN 1 ELSE month + 1, 1)

\* a parsed date cell is unparseable or outside the target month
BadDate(p) == p.skip \/ ~p.date.valid \/ ~InTargetMonth(p.date.day)

\* a row with a missing employeeName, a missing date, an unparseable date or
\* a date outside the target month
Defective(row) ==
    \/ MissingCell(row.employeeName)
    \/ MissingCell(row.dateValue)
    \/ BadDate(parseDateValue(row.dateValue))

\* the row numbers of the data rows that are not defective, in row order
GoodIdx == Indices(Len(sheet), {i \in 2..Len(sheet) : ~Defective(sheet[i])})

GoodOf(e) == SelectSeq(GoodIdx, LAMBDA i : CellString(sheet[i].employeeName) = e)

GoodNames == {CellString(sheet[GoodIdx[n]].employeeName) : n \in DOMAIN GoodIdx}

\* the dates of the rows idx, in order
DatesOf(idx) == [n \in DOMAIN idx |-> DateOfRow(sheet[idx[n]])]

\* the dates held in a list of stored entries, in order
StoredDates(entries) == [n \in DOMAIN entries |-> entries[n].date]

\* an employee map holds, per employee, exactly the dates of the employee's
\* rows that are not defective, in row order, all of them valid and in the
\* target month
HoldsGoodRows(employeeData) ==
    /\ DOMAIN employeeData = GoodNames
    /\ \A e \in DOMAIN employeeData :
          /\ StoredDates(employeeData[e]) = DatesOf(GoodOf(e))
          /\ \A n \in DOMAIN employeeData[e] :
                /\ employeeData[e][n].date.valid
                /\ InTargetMonth(employeeData[e][n].date.day)

\* the rows that are not defective and name a project
ProjectIdx == SelectSeq(GoodIdx, LAMBDA i : Truthy(sheet[i].projectName))

\* ------------------------------------------------------------------------
\* Claims C5..C7: the ingest
\* ------------------------------------------------------------------------
\* C5: every record held after the ingest of any report has a valid date in
\* the target month and year; rows with a missing employeeName, a missing
\* date, an unparseable date or an out-of-window date are never stored, raise
\* no error and leave what is stored for the other rows unchanged: each
\* report holds exactly the rows that are not defective, in row order.
C5_IngestFilters ==
    /\ tg.stage = "processed" => HoldsGoodRows(tg.employeeData)
    /\ ar.stage # "new" => HoldsGoodRows(ar.employeeData)
    /\ dv.stage # "new" =>
          /\ [n \in DOMAIN dv.allRecords |-> dv.allRecords[n].rowNumber] = GoodIdx
          /\ StoredDates(dv.allRecords) = DatesOf(GoodIdx)
          /\ \A n \in DOMAIN dv.allRecords :
                /\ dv.allRecords[n].date.valid
                /\ InTargetMonth(dv.allRecords[n].date.day)
    /\ fa.stage = "loaded" => HoldsGoodRows(fa.employeeData)
    /\ fa.stage = "failed" =>
          /\ \E n \in DOMAIN GoodIdx : sheet[GoodIdx[n]].projectName.t = "num"
          /\ \A e \in DOMAIN fa.employeeData : \A n \in DOMAIN fa.employeeData[e] :
                /\ fa.employeeData[e][n].date.valid
                /\ InTargetMonth(fa.employeeData[e][n].date.day)
    /\ ps.stage = "loaded" =>
          /\ DOMAIN ps.employeeWorkedDays
                = {CellString(sheet[ProjectIdx[n]].employeeName) : n \in DOMAIN ProjectIdx}
          /\ \A e \in DOMAIN ps.employeeWorkedDays :
                ps.employeeWorkedDays[e]
                    = Cardinality({DateOfRow(sheet[ProjectIdx[n]]).day :
                          n \in {k \in DOMAIN ProjectIdx :
                                   CellString(sheet[ProjectIdx[k]].employeeName) = e}})

\* C5 witness: every report has read a sheet whose row 2 is defective and
\* whose row 3 is not, and holds row 3 only.
C5_Witness ==
    /\ Len(sheet) = 3
    /\ Defective(sheet[2])
    /\ GoodIdx = <<3>>
    /\ tg.stage = "processed"
    /\ ar.stage = "loaded"
    /\ fa.stage = "loaded"
    /\ ps.stage = "loaded"
    /\ dv.stage = "loaded"
    /\ Len(dv.allRecords) = 1
    /\ dv.allRecords[1].rowNumber = 3
    /\ DOMAIN tg.employeeData = {CellString(sheet[3].employeeName)}

\* the value the ingest is to store for a project field
Sentinel(c) == IF Truthy(c) THEN CellString(c) ELSE Dashes

\* a list of stored entries holds row i with its project fields
HoldsRow(entries, i) ==
    \E n \in DOMAIN entries :
        /\ entries[n].date = DateOfRow(sheet[i])
        /\ entries[n].projectCode = Sentinel(sheet[i].projectCode)
        /\ entries[n].projectName = Sentinel(sheet[i].projectName)

\* C6: a non-header row with a non-empty employeeName and a valid in-window
\* date is accepted by the ingest of every report whatever its project
\* fields, empty project fields being stored as '--'.
C6_ValidRowAccepted ==
    \A n \in DOMAIN GoodIdx :
        LET i == GoodIdx[n]
            e == CellString(sheet[i].employeeName)
        IN /\ tg.stage = "processed" =>
                 e \in DOMAIN tg.employeeData /\ HoldsRow(tg.employeeData[e], i)
           /\ ar.stage # "new" =>
                 e \in DOMAIN ar.employeeData /\ HoldsRow(ar.employeeData[e], i)
           /\ fa.stage # "new" =>
                 e \in DOMAIN fa.employeeData /\ HoldsRow(fa.employeeData[e], i)
           /\ dv.stage # "new" =>
                 HoldsRow(SelectSeq(dv.allRecords, LAMBDA r : r.rowNumber = i), i)
           /\ ps.stage = "loaded" => e \in DOMAIN ps.employeeProjects

\* ------------------------------------------------------------------------
\* Audit runs: DataValidator over one upload for March 2024
\* ------------------------------------------------------------------------
MaxAuditRows == 4

CodeX1 == <<"X", "1">>

CodeX2 == <<"X", "2">>

WebSite == <<"W","e","b"," ","S","i","t","e">>

WebSiteLoose == <<"w","e","b"," "," ","s","i","t","e"," ">>

WebSiteUpper == <<"W","E","B"," ","S","I","T","E">>

Relaunch == <<"R","e","l","a","u","n","c","h">>

NameLowerA == <<"a">>

\* rows of the audit runs: employee A twice on day 1 under two spellings of
\* one project name, "A " (trailing blank) on day 1 and B on day 2 under
\* another name of the same code, A and "a" on day 2 under two spellings of
\* the name of a second code
AuditRows ==
    {Row(StrCell(CodeX1), StrCell(WebSite), DateCell(DayOf(IngestTarget, 1)),
         StrCell(NameA), NullCell),
     Row(StrCell(CodeX1), StrCell(WebSiteLoose), DateCell(DayOf(IngestTarget, 1)),
         StrCell(NameA), NullCell),
     Row(StrCell(CodeX1), StrCell(Relaunch), DateCell(DayOf(IngestTarget, 1)),
         StrCell(NameASpace), NullCell),
     Row(StrCell(CodeX1), StrCell(Relaunch), DateCell(DayOf(IngestTarget, 2)),
         StrCell(NameB), NullCell),
     Row(StrCell(CodeX2), StrCell(WebSite), DateCell(DayOf(IngestTarget, 2)),
         StrCell(NameA), NullCell),
     Row(StrCell(CodeX2), StrCell(WebSiteUpper), DateCell(DayOf(IngestTarget, 2)),
         StrCell(NameLowerA), NullCell)}

InitAudit ==
    \E west \in BOOLEAN :
        \E rows \in SeqsUpTo(AuditRows, MaxAuditRows) :
            /\ sheet = <<HeaderRow>> \o rows
            /\ month = IngestTarget.month
            /\ year = IngestTarget.year
            /\ satFriEmployees = {}
            /\ tzWest = west
            /\ NoPolicySheets
            /\ OneUpload
            /\ FreshObjects

NextAudit ==
    \/ DV_loadTimesheetData
    \/ DV_checkDuplicates
    \/ DV_checkInconsistencies
    \/ DV_generateCleanData
    \/ DV_calculateStatistics

SpecAudit == InitAudit /\ [][NextAudit]_vars

\* ------------------------------------------------------------------------
\* Identity runs: the five reports and the duplicate check over one upload
\* of audit rows
\* ------------------------------------------------------------------------
InitIdentity ==
    \E west \in BOOLEAN :
        \E rows \in SeqsUpTo(AuditRows, MaxRows) :
            /\ sheet = <<HeaderRow>> \o rows
            /\ month = IngestTarget.month
            /\ year = IngestTarget.year
            /\ satFriEmployees = {}
            /\ tzWest = west
            /\ NoPolicySheets
            /\ OneUpload
            /\ FreshObjects

NextIdentity ==
    \/ TG_processExcel
    \/ AR_loadTimesheetData
    \/ PS_loadTimesheetData
    \/ FA_loadTimesheetData
    \/ DV_loadTimesheetData
    \/ DV_checkDuplicates

SpecIdentity == InitIdentity /\ [][NextIdentity]_vars

\* the employeeName cell of the row a record was read from, as typed
VerbatimName(rowNumber) == CellString(sheet[rowNumber].employeeName)

\* C7: employee identity is the verbatim employeeName string in every
\* component: rows whose names differ in any way (blanks, letter case) belong
\* to distinct employees, also in the Auditor's (employeeName, date) key, so
\* such rows on one date are never reported as duplicates of each other.
C7_VerbatimIdentity ==
    /\ tg.stage = "processed" => DOMAIN tg.employeeData = Employees
    /\ ar.stage # "new" => DOMAIN ar.employeeData = Employees
    /\ fa.stage = "loaded" => DOMAIN fa.employeeData = Employees
    /\ ps.stage = "loaded" => DOMAIN ps.employeeProjects = Employees
    /\ dv.stage \in {"deduplicated", "checked"} =>
          /\ \A n \in DOMAIN dv.allRecords :
                dv.allRecords[n].status = "Duplicate" =>
                    \E m \in 1..(n - 1) :
                        /\ VerbatimName(dv.allRecords[m].rowNumber)
                              = VerbatimName(dv.allRecords[n].rowNumber)
                        /\ dv.allRecords[m].dateStr = dv.allRecords[n].dateStr
          /\ \A k \in DOMAIN dv.duplicates :
                \A i, j \in DOMAIN dv.duplicates[k].rowNumbers :
                    VerbatimName(dv.duplicates[k].rowNumbers[i])
                        = VerbatimName(dv.duplicates[k].rowNumbers[j])

\* ------------------------------------------------------------------------
\* Reference quantities of the audit claims, read off the stored records
\* ------------------------------------------------------------------------
\* the (employeeName, date) key of record n, as a pair
KeyPair(n) == <<dv.allRecords[n].employeeName, dv.allRecords[n].dateStr>>

\* the records that share the key of record n
SameKey(n) == {m \in DOMAIN dv.allRecords : KeyPair(m) = KeyPair(n)}

\* record n has an earlier record with its key
HasEarlier(n) == \E m \in SameKey(n) : m < n

\* the keys carried by more than one record
RepeatedKeys ==
    {KeyPair(n) : n \in {k \in DOMAIN dv.allRecords : Cardinality(SameKey(k)) > 1}}

\* the records carrying project code c
WithCode(c) == {n \in DOMAIN dv.allRecords : dv.allRecords[n].projectCode = c}

StoredCodes == {dv.allRecords[n].projectCode : n \in DOMAIN dv.allRecords}

\* the distinct normalized project names recorded under code c
NormNames(c) == {normalizeProjectName(dv.allRecords[n].projectName) : n \in WithCode(c)}

\* the distinct project names recorded under code c, as stored
RawNames(c) == {dv.allRecords[n].projectName : n \in WithCode(c)}

\* the codes listed in the inconsistencies report
ReportedCodes == {dv.inconsistencies[k].projectCode : k \in DOMAIN dv.inconsistencies}

\* spellings of one project name that differ in letter case and blanks only
WebSiteSpellings ==
    {WebSite, WebSiteUpper, <<"w","e","b"," "," ","s","i","t","e">>}

\* ------------------------------------------------------------------------
\* Claims C8..C10: the Auditor
\* ------------------------------------------------------------------------
\* C8: after checkDuplicates the first record of every (employeeName, date)
\* key, in row order, is not tagged Duplicate and every later record of the
\* key is; the duplicates report holds exactly one entry per key carried by
\* more than one record, and its occurrences is the number of those records.
C8_FirstOccurrence ==
    dv.stage = "deduplicated" =>
        /\ \A n \in DOMAIN dv.allRecords :
              IF HasEarlier(n)
              THEN dv.allRecords[n].status = "Duplicate"
              ELSE dv.allRecords[n].status = "Clean"
        /\ Len(dv.duplicates) = Cardinality(RepeatedKeys)
        /\ \A n \in DOMAIN dv.allRecords :
              KeyPair(n) \in RepeatedKeys =>
                  \E k \in DOMAIN dv.duplicates :
                      /\ <<dv.duplicates[k].employeeName, dv.duplicates[k].date>> = KeyPair(n)
                      /\ dv.duplicates[k].occurrences = Cardinality(SameKey(n))

\* C8 witness: one key is carried by three records; the first of them is
\* Clean, the two later ones are Duplicate and the report's entry counts 3.
C8_Witness ==
    /\ dv.stage = "deduplicated"
    /\ Len(dv.duplicates) = 1
    /\ dv.duplicates[1].occurrences = 3
    /\ \E a, b, c \in DOMAIN dv.allRecords :
          /\ a < b /\ b < c
          /\ SameKey(a) = {a, b, c}
          /\ dv.allRecords[a].status = "Clean"
          /\ dv.allRecords[b].status = "Duplicate"
          /\ dv.allRecords[c].status = "Duplicate"

\* C9: a project code is listed as inconsistent, and its records that are not
\* duplicates are tagged Inconsistent, exactly when the records carrying the
\* code hold more than one distinct normalized project name; spellings that
\* differ in letter case or blanks only never produce an inconsistency, and
\* two different names flag every record of the code (the report entry lists
\* all its rows).
C9_InconsistentIffDistinct ==
    dv.stage = "checked" =>
        /\ ReportedCodes = {c \in StoredCodes : Cardinality(NormNames(c)) > 1}
        /\ Len(dv.inconsistencies) = Cardinality(ReportedCodes)
        /\ \A c \in StoredCodes : RawNames(c) \subseteq WebSiteSpellings => c \notin ReportedCodes
        /\ \A n \in DOMAIN dv.allRecords :
              dv.allRecords[n].status = "Inconsistent"
                  <=> /\ Cardinality(NormNames(dv.allRecords[n].projectCode)) > 1
                      /\ ~HasEarlier(n)
        /\ \A k \in DOMAIN dv.inconsistencies :
              /\ {dv.inconsistencies[k].rowNumbers[i] :
                     i \in DOMAIN dv.inconsistencies[k].rowNumbers}
                   = {dv.allRecords[n].rowNumber :
                         n \in WithCode(dv.inconsistencies[k].projectCode)}
              /\ dv.inconsistencies[k].count
                   = Cardinality(RawNames(dv.inconsistencies[k].projectCode))

\* C9 witness: code X1 holds two different names and is listed with both its
\* records tagged Inconsistent, while code X2 holds two spellings of one name,
\* is not listed and keeps its records Clean.
C9_Witness ==
    /\ dv.stage = "checked"
    /\ ReportedCodes = {CodeX1}
    /\ RawNames(CodeX1) = {WebSite, Relaunch}
    /\ \A n \in WithCode(CodeX1) : dv.allRecords[n].status = "Inconsistent"
    /\ RawNames(CodeX2) = {WebSite, WebSiteUpper}
    /\ \A n \in WithCode(CodeX2) : dv.allRecords[n].status = "Clean"

\* C10: every record carries exactly one status among Clean, Duplicate and
\* Inconsistent at every moment, and no step takes the Duplicate tag from a
\* record: a record tagged by checkDuplicates is still Duplicate after
\* checkInconsistencies, also when its project code is inconsistent.
C10_OneStatus ==
    /\ [](\A n \in DOMAIN dv.allRecords :
             dv.allRecords[n].status \in {"Clean", "Duplicate", "Inconsistent"})
    /\ [][\A n \in DOMAIN dv.allRecords :
             dv.allRecords[n].status = "Duplicate" =>
                 /\ n \in DOMAIN dv.allRecords'
                 /\ dv.allRecords'[n].status = "Duplicate"]_vars

\* C10 witness: after checkInconsistencies a record of a listed code is still
\* Duplicate next to an Inconsistent record of the same code and a Clean
\* record of another code.
C10_Witness ==
    /\ dv.stage = "checked"
    /\ \E a, b, c \in DOMAIN dv.allRecords :
          /\ dv.allRecords[a].status = "Inconsistent"
          /\ dv.allRecords[b].status = "Duplicate"
          /\ dv.allRecords[b].projectCode = dv.allRecords[a].projectCode
          /\ dv.allRecords[b].projectCode \in ReportedCodes
          /\ dv.allRecords[c].status = "Clean"

\* ------------------------------------------------------------------------
\* Claims C11..C12: the clean set and the statistics
\* ------------------------------------------------------------------------
\* the record of allRecords that entry k of cleanRecords refers to
CleanRecord(k) == dv.allRecords[dv.cleanRecords[k]]

\* the records that are the first of their (employeeName, date) key, in order
FirstOccurrences ==
    Indices(Len(dv.allRecords), {n \in DOMAIN dv.allRecords : ~HasEarlier(n)})

\* C11: the clean record set holds, in original row order, exactly the first
\* record of each (employeeName, date) key: no record tagged Duplicate is in
\* it, every Inconsistent record that is a first occurrence is in it, and it
\* has exactly one record per distinct key.
C11_CleanSet ==
    dv.stage \in {"cleaned", "done"} =>
        /\ dv.cleanRecords = FirstOccurrences
        /\ \A k \in DOMAIN dv.cleanRecords : CleanRecord(k).status # "Duplicate"
        /\ \A n \in DOMAIN dv.allRecords :
              (dv.allRecords[n].status = "Inconsistent" /\ ~HasEarlier(n))
                  => \E k \in DOMAIN dv.cleanRecords : dv.cleanRecords[k] = n
        /\ \A n \in DOMAIN dv.allRecords :
              Cardinality({k \in DOMAIN dv.cleanRecords :
                              <<CleanRecord(k).employeeName, CleanRecord(k).dateStr>>
                                  = KeyPair(n)}) = 1

\* C11 witness: the clean set of an upload with a repeated key and an
\* inconsistent code leaves out a Duplicate record and keeps an Inconsistent
\* one next to a Clean one.
C11_Witness ==
    /\ dv.stage = "cleaned"
    /\ Len(dv.cleanRecords) < Len(dv.allRecords)
    /\ \E n \in DOMAIN dv.allRecords :
          /\ dv.allRecords[n].status = "Duplicate"
          /\ \A k \in DOMAIN dv.cleanRecords : dv.cleanRecords[k] # n
    /\ \E k \in DOMAIN dv.cleanRecords : CleanRecord(k).status = "Inconsistent"
    /\ \E k \in DOMAIN dv.cleanRecords : CleanRecord(k).status = "Clean"

NextRerun ==
    \/ TG_processExcel
    \/ TG_processExcelAgain
    \/ AR_process
    \/ PS_loadTimesheetData
    \/ PS_loadTimesheetDataAgain
    \/ DV_process
    \/ DV_processFresh

SpecRerun == InitIdentity /\ [][NextRerun]_vars

\* what one run on freshly constructed objects leaves
SingleDV == DV_processOn(DV_new)

SingleTG == TG_processed(TG_eachRow(EmptyObj, sheet), EmptyObj)

SingleAR == AR_processOn(AR_new)

\* the figures of an absence summary (its dateMap, the grouped entries, left out)
AR_figures(summary) ==
    [workedDays |-> summary.workedDays, workedFridays |-> summary.workedFridays,
     workedSaturdays |-> summary.workedSaturdays, payrunDays |-> summary.payrunDays,
     absence |-> summary.absence, absentDates |-> summary.absentDates,
     isSatFriEmployee |-> summary.isSatFriEmployee]

\* C13: the Auditor run twice on the same rows gives the duplicates and
\* inconsistencies reports of a single run, whether the second run is made
\* with a fresh DataValidator or with the same DataValidator object.
C13_AuditIdempotent ==
    dv.stage \in {"renewed", "redone"} =>
        /\ dv.duplicates = SingleDV.duplicates
        /\ dv.inconsistencies = SingleDV.inconsistencies

\* C14: a second invocation of processExcel, of AbsenceReportGenerator.process
\* or of ProjectSummaryGenerator.loadTimesheetData over the same rows, month,
\* year and rest-day list raises no error and gives every employee the
\* summary of the first invocation.
C14_RerunSameOutputs ==
    /\ tg.stage = "reprocessed" => tg.employeeSummaries = SingleTG.employeeSummaries
    /\ ar.stage = "recalculated" =>
          /\ DOMAIN ar.payrunSummary = DOMAIN SingleAR.payrunSummary
          /\ \A e \in DOMAIN ar.payrunSummary :
                AR_figures(ar.payrunSummary[e]) = AR_figures(SingleAR.payrunSummary[e])
    /\ ps.stage # "failed"

\* ------------------------------------------------------------------------
\* Allowance runs: FoodAllowanceCalculator and AbsenceReportGenerator over one
\* upload for March 2024 and two policy worksheets
\* ------------------------------------------------------------------------
LeaveCodeLower == <<"a", "/", "l">>

AnnualLeaveName == <<"A","n","n","u","a","l"," ","L","e","a","v","e">>

LeaveName == <<"L", "e", "a", "v", "e">>

Amount150 == <<"1", "5", "0">>

\* rows of the allowance runs: A on Monday the 4th under P1, under P2, under
\* a project named 'Annual Leave' and under the code 'a/l'; A on the 5th
\* under P1; B on the 4th under P1
AllowanceRows ==
    {Row(StrCell(CodeP1), StrCell(ProjSite), DateCell(DayOf(IngestTarget, 4)),
         StrCell(NameA), NullCell),
     Row(StrCell(CodeP2), StrCell(ProjSite), DateCell(DayOf(IngestTarget, 4)),
         StrCell(NameA), NullCell),
     Row(StrCell(CodeP1), StrCell(AnnualLeaveName), DateCell(DayOf(IngestTarget, 4)),
         StrCell(NameA), NullCell),
     Row(StrCell(LeaveCodeLower), StrCell(LeaveName), DateCell(DayOf(IngestTarget, 4)),
         StrCell(NameA), NullCell),
     Row(StrCell(CodeP1), StrCell(ProjSite), DateCell(DayOf(IngestTarget, 5)),
         StrCell(NameA), NullCell),
     Row(StrCell(CodeP1), StrCell(ProjSite), DateCell(DayOf(IngestTarget, 4)),
         StrCell(NameB), NullCell)}

PolicyHeader ==
    PolicyRow(StrCell(<<"C","o","d","e">>), StrCell(<<"N","a","m","e">>),
              StrCell(<<"L","o","c">>), StrCell(<<"P","1">>), StrCell(<<"P","2">>))

\* project policy worksheets: P1 under policy 1 and P2 under policy 2, or the
\* other way round with empty cells for No and a row without a code
ProjectPolicySheets ==
    {<<PolicyHeader,
       PolicyRow(StrCell(CodeP1), StrCell(ProjSite), NullCell,
                 StrCell(<<"Y","e","s">>), StrCell(<<"N","o">>)),
       PolicyRow(StrCell(CodeP2), StrCell(ProjSite), NullCell,
                 StrCell(<<"n","o">>), StrCell(<<"Y","E","S">>))>>,
     <<PolicyHeader,
       PolicyRow(StrCell(CodeP1), NullCell, NullCell, NullCell, StrCell(Yes)),
       PolicyRow(NullCell, StrCell(ProjSite), NullCell, StrCell(Yes), StrCell(Yes)),
       PolicyRow(StrCell(CodeP2), NullCell, NullCell, StrCell(Yes), NullCell)>>}

EmployeeHeader ==
    EmployeeRow(StrCell(<<"E","m","p">>), StrCell(<<"A","m","t">>),
                StrCell(<<"P","o","l">>))

\* employee policy worksheets: A alone on policy 1; A on policy 2 (amount
\* typed as text) and B on policy 1; A without an amount and B without a policy
EmployeePolicySheets ==
    {<<EmployeeHeader, EmployeeRow(StrCell(NameA), NumCell(200), StrCell(FoodPolicy1))>>,
     <<EmployeeHeader, EmployeeRow(StrCell(NameA), StrCell(Amount150), StrCell(FoodPolicy2)),
       EmployeeRow(StrCell(NameB), NumCell(100), StrCell(FoodPolicy1))>>,
     <<EmployeeHeader, EmployeeRow(StrCell(NameA), NullCell, StrCell(FoodPolicy1)),
       EmployeeRow(StrCell(NameB), NumCell(100), NullCell)>>}

InitAllowance ==
    \E west \in BOOLEAN, pp \in ProjectPolicySheets, ep \in EmployeePolicySheets :
        \E rows \in SeqsUpTo(AllowanceRows, MaxRows) :
            /\ sheet = <<HeaderRow>> \o rows
            /\ month = IngestTarget.month
            /\ year = IngestTarget.year
            /\ satFriEmployees = {}
            /\ tzWest = west
            /\ projectPolicySheet = pp
            /\ employeePolicySheet = ep
            /\ OneUpload
            /\ FreshObjects

NextAllowance ==
    \/ FA_loadProjectPolicies
    \/ FA_loadEmployeePolicies
    \/ FA_loadTimesheetData
    \/ FA_calculateFoodAllowance
    \/ AR_loadTimesheetData
    \/ AR_calculatePayrunAndAbsence

SpecAllowance == InitAllowance /\ [][NextAllowance]_vars

\* ------------------------------------------------------------------------
\* Reference quantities of the allowance claims, read off the worksheets
\* ------------------------------------------------------------------------
\* the rows of the employee policy worksheet that name employee e
PolicyRowsOf(e) ==
    {i \in 2..Len(employeePolicySheet) :
        CellString(employeePolicySheet[i].employeeName) = e}

\* the employees the EmployeePolicy table assigns a policy to
PolicyEmployees ==
    {CellString(employeePolicySheet[i].employeeName) :
        i \in {j \in 2..Len(employeePolicySheet) :
                  /\ Truthy(employeePolicySheet[j].employeeName)
                  /\ Truthy(employeePolicySheet[j].policy)}}

\* the policy and the amount the table assigns to employee e
AssignedPolicy(e) ==
    CellString(employeePolicySheet[CHOOSE i \in PolicyRowsOf(e) : TRUE].policy)

AssignedAmount(e) ==
    FA_amount(employeePolicySheet[CHOOSE i \in PolicyRowsOf(e) : TRUE].amount)

\* the ProjectPolicy flag of project code c for policy name p
PolicyFlag(c, p) ==
    \E i \in 2..Len(projectPolicySheet) :
        /\ Truthy(projectPolicySheet[i].projectCode)
        /\ CellString(projectPolicySheet[i].projectCode) = c
        /\ \/ p = FoodPolicy1 /\ FA_isYes(projectPolicySheet[i].policy1)
           \/ p = FoodPolicy2 /\ FA_isYes(projectPolicySheet[i].policy2)

\* the kept rows of employee e on the date with key dateStr
RowsOn(e, dateStr) ==
    {i \in KeptIdx : /\ EmployeeKey(sheet[i]) = e
                     /\ formatDateLocal(DateOfRow(sheet[i])) = dateStr}

\* the date keys employee e has a kept row on
WorkedKeys(e) ==
    {formatDateLocal(DateOfRow(sheet[i])) :
        i \in {j \in KeptIdx : EmployeeKey(sheet[j]) = e}}

\* the row's project name contains the annual-leave phrase
LeaveByName(row) ==
    row.projectName.t = "str" /\ includes(toLowerCase(row.projectName.s), AnnualLeave)

\* the row's project code is the reserved leave code, in any letter case
LeaveByCode(row) ==
    Truthy(row.projectCode) /\ toUpperCase(CellString(row.projectCode)) = AL

\* the breakdown entries of employee e in the allowance summary
Breakdown(e) == fa.foodAllowanceSummary[e].dailyBreakdown

\* ------------------------------------------------------------------------
\* Claims C15..C18: the allowance evaluation
\* ------------------------------------------------------------------------
\* C15: an employee with in-window records and no entry in the EmployeePolicy
\* table has no entry in the allowance summary, the run raises no error, and
\* the employee has an entry in the absence summary; the allowance summary
\* holds exactly the employees with records that the table gives a policy.
C15_NoPolicyNoEntry ==
    /\ fa.stage # "failed"
    /\ fa.stage = "calculated" =>
          /\ \A e \in Employees :
                PolicyRowsOf(e) = {} => e \notin DOMAIN fa.foodAllowanceSummary
          /\ DOMAIN fa.foodAllowanceSummary = Employees \cap PolicyEmployees
    /\ ar.stage = "calculated" => DOMAIN ar.payrunSummary = Employees

\* C15 witness: B has a record and no row in the policy table; after both
\* calculations the allowance summary holds A alone and the absence summary
\* holds A and B.
C15_Witness ==
    /\ fa.stage = "calculated"
    /\ ar.stage = "calculated"
    /\ Employees = {NameA, NameB}
    /\ PolicyRowsOf(NameB) = {}
    /\ DOMAIN fa.foodAllowanceSummary = {NameA}
    /\ DOMAIN ar.payrunSummary = {NameA, NameB}

\* C16: a worked date on which any record of the employee is Annual Leave
\* (project code equal to the leave code in any letter case, or project name
\* containing the annual-leave phrase) is ineligible with reason 'Annual
\* Leave', also when another record of the date is on an eligible project.
C16_AnnualLeaveIneligible ==
    fa.stage = "calculated" =>
        \A e \in DOMAIN fa.foodAllowanceSummary : \A k \in DOMAIN Breakdown(e) :
            (\E i \in RowsOn(e, Breakdown(e)[k].date) :
                 LeaveByCode(sheet[i]) \/ LeaveByName(sheet[i]))
                => /\ ~Breakdown(e)[k].eligible
                   /\ Breakdown(e)[k].reason = "Annual Leave"

\* C17: for an employee of the EmployeePolicy table and a worked date without
\* an Annual Leave record, the date is eligible exactly when one of its
\* records has a project code whose ProjectPolicy flag for the employee's
\* assigned policy is true; a date without such a record is ineligible with
\* reason 'Project not eligible'.
C17_EligibleIffProjectMatches ==
    fa.stage = "calculated" =>
        \A e \in DOMAIN fa.foodAllowanceSummary : \A k \in DOMAIN Breakdown(e) :
            (\A i \in RowsOn(e, Breakdown(e)[k].date) : ~LeaveByName(sheet[i]))
                => /\ Breakdown(e)[k].eligible
                        <=> \E i \in RowsOn(e, Breakdown(e)[k].date) :
                                PolicyFlag(CellString(sheet[i].projectCode),
                                           AssignedPolicy(e))
                   /\ ~Breakdown(e)[k].eligible
                        => Breakdown(e)[k].reason = "Project not eligible"

\* C17 witness: A, on policy 1, has two records on one date, one under a
\* project of policy 1 and one under a project of policy 2 only: the date is
\* eligible through the first of them.
C17_Witness ==
    /\ fa.stage = "calculated"
    /\ NameA \in DOMAIN fa.foodAllowanceSummary
    /\ AssignedPolicy(NameA) = FoodPolicy1
    /\ Len(Breakdown(NameA)) = 1
    /\ Breakdown(NameA)[1].eligible
    /\ Len(Breakdown(NameA)[1].projects) = 2
    /\ Len(Breakdown(NameA)[1].eligibleProjects) = 1

\* C18: for every employee of the allowance summary eligibleDays is the
\* number of distinct worked dates classified eligible, the breakdown has
\* exactly one entry per distinct worked date, and totalAmount = eligibleDays
\* x amountPerDay, amountPerDay being the amount of the EmployeePolicy table.
C18_EligibleDaysAndAmount ==
    fa.stage = "calculated" =>
        \A e \in DOMAIN fa.foodAllowanceSummary :
            /\ {Breakdown(e)[k].date : k \in DOMAIN Breakdown(e)} = WorkedKeys(e)
            /\ Len(Breakdown(e)) = Cardinality(WorkedKeys(e))
            /\ fa.foodAllowanceSummary[e].eligibleDays
                 = Cardinality({Breakdown(e)[k].date :
                                   k \in {j \in DOMAIN Breakdown(e) : Breakdown(e)[j].eligible}})
            /\ fa.foodAllowanceSummary[e].amountPerDay = AssignedAmount(e)
            /\ fa.foodAllowanceSummary[e].totalAmount
                 = fa.foodAllowanceSummary[e].eligibleDays * AssignedAmount(e)

\* C18 witness: A has two eligible records on one date: one breakdown entry,
\* one eligible day, one day's amount.
C18_Witness ==
    /\ fa.stage = "calculated"
    /\ NameA \in DOMAIN fa.foodAllowanceSummary
    /\ Len(fa.employeeData[NameA]) = 2
    /\ Len(Breakdown(NameA)) = 1
    /\ Len(Breakdown(NameA)[1].eligibleProjects) = 2
    /\ fa.foodAllowanceSummary[NameA].eligibleDays = 1
    /\ fa.foodAllowanceSummary[NameA].totalAmount = 200

\* ------------------------------------------------------------------------
\* Allocation runs: ProjectSummaryGenerator over one upload for March 2024
\* ------------------------------------------------------------------------
MaxAllocationRows == 3

SiteSpaced == <<"S", "i", "t", "e", " ">>

\* rows of the allocation runs: A on the 4th under 'Site', under 'Site '
\* (the same project after trimming) and under 'Web Site'; A on the 5th under
\* 'Web Site' and under no project name; B on the 5th under 'Site'
AllocationRows ==
    {Row(StrCell(CodeP1), StrCell(ProjSite), DateCell(DayOf(IngestTarget, 4)),
         StrCell(NameA), NullCell),
     Row(StrCell(CodeP1), StrCell(SiteSpaced), DateCell(DayOf(IngestTarget, 4)),
         StrCell(NameA), NullCell),
     Row(StrCell(CodeX1), StrCell(WebSite), DateCell(DayOf(IngestTarget, 4)),
         StrCell(NameA), NullCell),
     Row(StrCell(CodeX1), StrCell(WebSite), DateCell(DayOf(IngestTarget, 5)),
         StrCell(NameA), NullCell),
     Row(StrCell(CodeP2), NullCell, DateCell(DayOf(IngestTarget, 5)),
         StrCell(NameA), NullCell),
     Row(StrCell(CodeP1), StrCell(ProjSite), DateCell(DayOf(IngestTarget, 5)),
         StrCell(NameB), NullCell)}

InitAllocation ==
    \E west \in BOOLEAN :
        \E rows \in SeqsUpTo(AllocationRows, MaxAllocationRows) :
            /\ sheet = <<HeaderRow>> \o rows
            /\ month = IngestTarget.month
            /\ year = IngestTarget.year
            /\ satFriEmployees = {}
            /\ tzWest = west
            /\ NoPolicySheets
            /\ OneUpload
            /\ FreshObjects

NextAllocation ==
    \/ PS_loadTimesheetData
    \/ PS_generateExcelReport

SpecAllocation == InitAllocation /\ [][NextAllocation]_vars

\* ------------------------------------------------------------------------
\* Reference quantities of the allocation claims, read off the worksheet
\* ------------------------------------------------------------------------
\* the project a row is recorded under: its trimmed project name, the
\* sentinel '--' of the ingest when the cell is empty
ProjectOf(row) == IF Truthy(row.projectName) THEN PS_project(row) ELSE Dashes

\* the distinct dates on which employee e has a record for project p
ProjectDates(e, p) ==
    {DateOfRow(sheet[i]).day :
        i \in {j \in KeptIdx : EmployeeKey(sheet[j]) = e /\ ProjectOf(sheet[j]) = p}}

\* ------------------------------------------------------------------------
\* Claims C19..C20: the allocation
\* ------------------------------------------------------------------------
\* C19: in the allocation result an employee's days on a project are the
\* number of distinct dates with a record of the employee for that project,
\* totalDays is the employee's number of distinct worked dates, and
\* percentage = days / totalDays x 100.
C19_AllocationDays ==
    ps.stage = "reported" =>
           \A e \in DOMAIN ps.percentages :
              /\ ps.percentages[e].totalDays = Cardinality(WorkedDates(e))
              /\ \A p \in DOMAIN ps.percentages[e].projects :
                    /\ ps.percentages[e].projects[p].days
                         = Cardinality(ProjectDates(e, p))
                    /\ ps.percentages[e].projects[p].percentage.num
                           * ps.percentages[e].totalDays
                         = 100 * ps.percentages[e].projects[p].days
                               * ps.percentages[e].projects[p].percentage.den

\* C20: in the with-unassigned sheet, for every employee the project
\* percentages plus the Unassigned bucket max(0, 100 - their sum) add up to
\* 100 within 0.1, and the Total cell shows that sum.
C20_UnassignedTotals100 ==
    ps.stage = "reported" =>
        \A e \in DOMAIN ps.percentages :
            LET sum   == ps.percentages[e].totalPercentage
                whole == [num |-> sum.num + PS_unassigned(sum).num, den |-> sum.den]
            IN /\ 10 * (whole.num - 100 * whole.den) <= whole.den
               /\ 10 * (100 * whole.den - whole.num) <= whole.den
               /\ ps.workbook.WithUnassigned[e].total = PS_toFixed1(whole)

\* ------------------------------------------------------------------------
\* The web server (server.js): request handlers over one output directory
\* ------------------------------------------------------------------------
\* number of requests the server receives in a run
MaxRequests == 2

\* the report objects of the direct runs; a handler constructs its own
objects == <<tg, ar, dv, ps, fa>>

Xlsx == <<".","x","l","s","x">>

Zip == <<".","z","i","p">>

AbsenceReport == <<"A","b","s","e","n","c","e","_","R","e","p","o","r","t","_">>

DataValidationReport ==
    <<"D","a","t","a","_","V","a","l","i","d","a","t","i","o","n","_",
      "R","e","p","o","r","t","_">>

ProjectSummary == <<"P","r","o","j","e","c","t","_","S","u","m","m","a","r","y","_">>

FoodAllowanceReport ==
    <<"F","o","o","d","_","A","l","l","o","w","a","n","c","e","_",
      "R","e","p","o","r","t","_">>

AllReports == <<"A","l","l","_","R","e","p","o","r","t","s","_">>

TimesheetPDFs == <<"T","i","m","e","s","h","e","e","t","_","P","D","F","s">>

TimesheetPdf == <<"_","T","i","m","e","s","h","e","e","t",".","p","d","f">>

\* String(month).padStart(2, '0') + year
monthYear == padStart2(numToString(month)) \o numToString(year)

\* `${prefix}${monthYear}.xlsx` and `All_Reports_${monthYear}.zip`
outputFileName(prefix) == prefix \o monthYear \o Xlsx

zipFileName == AllReports \o monthYear \o Zip

\* `${employeeName}_Timesheet.pdf` of generatePDFs
pdfFileName(employeeName) == employeeName \o TimesheetPdf

\* a request the server has started to handle; download is the answer of a
\* later GET for its fileName: 0 none yet, NotFound, or the request that
\* wrote the file sent
NotFound == -1

NewRequest(endpoint, pc) ==
    [endpoint |-> endpoint, pc |-> pc, event |-> "none", fileName |-> <<>>,
     download |-> 0]

\* the handler reaches its catch block (or sends an error event itself) and
\* ends the response
Failed(req) == [req EXCEPT !.pc = "done", !.event = "error"]

\* sendProgress({ ..., complete: true, fileName }) and res.end()
Completed(req, fileName) ==
    [req EXCEPT !.pc = "done", !.event = "complete", !.fileName = fileName]

\* the requests of an endpoint that wait at an await
At(endpoint, pc) ==
    {r \in DOMAIN requests : requests[r].endpoint = endpoint /\ requests[r].pc = pc}

\* a file of the given names written (created or replaced) by request r
Written(dir, names, r) ==
    [n \in (DOMAIN dir) \cup names |->
        IF n \in names THEN [dir |-> FALSE, by |-> r] ELSE dir[n]]

\* fs.mkdirSync(name) when the entry does not exist
MadeDir(dir, name, r) ==
    [n \in (DOMAIN dir) \cup {name} |->
        IF n \in DOMAIN dir THEN dir[n] ELSE [dir |-> TRUE, by |-> r]]

\* the directory without the entries of the set gone
Without(dir, gone) == [n \in (DOMAIN dir) \ gone |-> dir[n]]

\* what the loaders of the report classes make of the upload
TG_employeeCount == Cardinality(DOMAIN TG_eachRow(EmptyObj, sheet))

PS_employeeCount == Cardinality(DOMAIN PS_eachRow({}, sheet).projects)

\* worksheet.eachRow on workbook.worksheets[0] of a workbook without
\* worksheets: a TypeError (absenceReport.js, DataValidator,
\* FoodAllowanceCalculator) or the Error thrown by the check (generator.js,
\* projectSummary.js)
NoWorksheet == worksheets = 0

\* POST /generate up to `await generator.processExcel()`: every entry of the
\* output directory is removed with fs.unlinkSync, which throws on a
\* directory; readdirSync lists the entries in no particular order, so any
\* of the files may be gone when it throws
Generate_clear ==
    /\ Len(requests) < MaxRequests
    /\ LET dirs == {n \in DOMAIN outputDir : outputDir[n].dir}
       IN IF dirs = {}
          THEN /\ outputDir' = Without(outputDir, DOMAIN outputDir)
               /\ requests' = Append(requests, NewRequest("generate", "processExcel"))
          ELSE /\ \E gone \in SUBSET ((DOMAIN outputDir) \ dirs) :
                      outputDir' = Without(outputDir, gone)
               /\ requests' = Append(requests, Failed(NewRequest("generate", "clear")))
    /\ UNCHANGED <<inputs, objects>>

\* POST /generate from processExcel() on: no worksheet throws, no employee
\* sends the error event 'No data found', otherwise generatePDFs writes one
\* PDF per employee into the output directory and the complete event follows
Generate_generatePDFs ==
    \E r \in At("generate", "processExcel") :
        /\ IF NoWorksheet \/ TG_employeeCount = 0
           THEN /\ requests' = [requests EXCEPT ![r] = Failed(requests[r])]
                /\ UNCHANGED outputDir
           ELSE /\ outputDir' =
                      Written(outputDir,
                              {pdfFileName(e) : e \in DOMAIN TG_eachRow(EmptyObj, sheet)}, r)
                /\ requests' = [requests EXCEPT ![r] = Completed(requests[r], <<>>)]
        /\ UNCHANGED <<inputs, objects>>

\* POST /generate-absence-report up to `await generator.generateExcelReport`
Absence_load ==
    /\ Len(requests) < MaxRequests
    /\ requests' = Append(requests,
                          IF NoWorksheet
                          THEN Failed(NewRequest("absence", "loadTimesheetData"))
                          ELSE NewRequest("absence", "generateExcelReport"))
    /\ UNCHANGED <<inputs, objects, outputDir>>

\* the report file is written, then the complete event names it
Absence_generateExcelReport ==
    \E r \in At("absence", "generateExcelReport") :
        /\ outputDir' = Written(outputDir, {outputFileName(AbsenceReport)}, r)
        /\ requests' = [requests EXCEPT
                           ![r] = Completed(requests[r], outputFileName(AbsenceReport))]
        /\ UNCHANGED <<inputs, objects>>

\* POST /validate-data up to `await validator.generateExcelReport`
Validate_process ==
    /\ Len(requests) < MaxRequests
    /\ requests' = Append(requests,
                          IF NoWorksheet
                          THEN Failed(NewRequest("validate", "process"))
                          ELSE NewRequest("validate", "generateExcelReport"))
    /\ UNCHANGED <<inputs, objects, outputDir>>

Validate_generateExcelReport ==
    \E r \in At("validate", "generateExcelReport") :
        /\ outputDir' = Written(outputDir, {outputFileName(DataValidationReport)}, r)
        /\ requests' = [requests EXCEPT
                           ![r] = Completed(requests[r],
                                            outputFileName(DataValidationReport))]
        /\ UNCHANGED <<inputs, objects>>

\* POST /generate-project-summary up to `await generator.generateExcelReport`:
\* no employee sends the error event 'No data found'
Summary_load ==
    /\ Len(requests) < MaxRequests
    /\ requests' = Append(requests,
                          IF NoWorksheet \/ PS_employeeCount = 0
                          THEN Failed(NewRequest("summary", "loadTimesheetData"))
                          ELSE NewRequest("summary", "generateExcelReport"))
    /\ UNCHANGED <<inputs, objects, outputDir>>

Summary_generateExcelReport ==
    \E r \in At("summary", "generateExcelReport") :
        /\ outputDir' = Written(outputDir, {outputFileName(ProjectSummary)}, r)
        /\ requests' = [requests EXCEPT
                           ![r] = Completed(requests[r], outputFileName(ProjectSummary))]
        /\ UNCHANGED <<inputs, objects>>

\* POST /generate-food-allowance up to `await calculator.generateExcelReport`:
\* the three loaders and calculateFoodAllowance; a row callback that throws
\* ends the request in the catch block
Food_load ==
    /\ Len(requests) < MaxRequests
    /\ requests' = Append(requests,
                          IF NoWorksheet \/ FA_eachRow(EmptyObj, sheet).error
                          THEN Failed(NewRequest("food", "loadTimesheetData"))
                          ELSE NewRequest("food", "generateExcelReport"))
    /\ UNCHANGED <<inputs, objects, outputDir>>

Food_generateExcelReport ==
    \E r \in At("food", "generateExcelReport") :
        /\ outputDir' = Written(outputDir, {outputFileName(FoodAllowanceReport)}, r)
        /\ requests' = [requests EXCEPT
                           ![r] = Completed(requests[r],
                                            outputFileName(FoodAllowanceReport))]
        /\ UNCHANGED <<inputs, objects>>

\* POST /generate-all up to the first await: the output directory is emptied,
\* directories included
All_clear ==
    /\ Len(requests) < MaxRequests
    /\ outputDir' = Without(outputDir, DOMAIN outputDir)
    /\ requests' = Append(requests, NewRequest("all", "absence"))
    /\ UNCHANGED <<inputs, objects>>

\* one of the four report sections of /generate-all: the section fails and
\* the handler ends in its catch block, or the section's file is written and
\* the handler goes on to the next section
SectionDir(r, failed, prefix) ==
    IF failed THEN outputDir ELSE Written(outputDir, {outputFileName(prefix)}, r)

SectionRequests(r, failed, to) ==
    [requests EXCEPT ![r] = IF failed THEN Failed(requests[r])
                            ELSE [requests[r] EXCEPT !.pc = to]]

\* 1. absence report
All_absence ==
    \E r \in At("all", "absence") :
        /\ outputDir' = SectionDir(r, NoWorksheet, AbsenceReport)
        /\ requests' = SectionRequests(r, NoWorksheet, "validation")
        /\ UNCHANGED <<inputs, objects>>

\* 2. data validation
All_validation ==
    \E r \in At("all", "validation") :
        /\ outputDir' = SectionDir(r, FALSE, DataValidationReport)
        /\ requests' = SectionRequests(r, FALSE, "summary")
        /\ UNCHANGED <<inputs, objects>>

\* 3. project summary (the employee count is not looked at)
All_summary ==
    \E r \in At("all", "summary") :
        /\ outputDir' = SectionDir(r, FALSE, ProjectSummary)
        /\ requests' = SectionRequests(r, FALSE, "food")
        /\ UNCHANGED <<inputs, objects>>

\* 4. food allowance
All_food ==
    \E r \in At("all", "food") :
        /\ outputDir' = SectionDir(r, FA_eachRow(EmptyObj, sheet).error,
                                   FoodAllowanceReport)
        /\ requests' = SectionRequests(r, FA_eachRow(EmptyObj, sheet).error, "pdfs")
        /\ UNCHANGED <<inputs, objects>>

\* 5. the Timesheet_PDFs directory is made unless it exists and the PDFs are
\* written into it (the employee count is not looked at)
All_pdfs ==
    \E r \in At("all", "pdfs") :
        /\ outputDir' = MadeDir(outputDir, TimesheetPDFs, r)
        /\ requests' = [requests EXCEPT ![r].pc = "zip"]
        /\ UNCHANGED <<inputs, objects>>

\* 6. the ZIP file is written, then the complete event names it
All_zip ==
    \E r \in At("all", "zip") :
        /\ outputDir' = Written(outputDir, {zipFileName}, r)
        /\ requests' = [requests EXCEPT ![r] = Completed(requests[r], zipFileName)]
        /\ UNCHANGED <<inputs, objects>>

\* GET /download-food-allowance?fileName=...: the client asks for the file a
\* complete event named
Download ==
    \E r \in DOMAIN requests :
        /\ requests[r].event = "complete"
        /\ requests[r].fileName # <<>>
        /\ requests[r].download = 0
        /\ requests' = [requests EXCEPT ![r].download =
                           IF requests[r].fileName \in DOMAIN outputDir
                           THEN outputDir[requests[r].fileName].by
                           ELSE NotFound]
        /\ UNCHANGED <<inputs, objects, outputDir>>

\* ------------------------------------------------------------------------
\* Server runs: requests of every endpoint over one upload for March 2024
\* ------------------------------------------------------------------------
\* the uploaded worksheet: without rows, with the header row alone, with a
\* row in the month, with a row of a second employee, with a row that has no
\* date, with a row whose project name is a number
ServerSheets ==
    {<<>>,
     <<HeaderRow>>,
     <<HeaderRow,
       Row(StrCell(CodeP1), StrCell(ProjSite), DateCell(DayOf(IngestTarget, 4)),
           StrCell(NameA), NullCell)>>,
     <<HeaderRow,
       Row(StrCell(CodeP1), StrCell(ProjSite), DateCell(DayOf(IngestTarget, 4)),
           StrCell(NameA), NullCell),
       Row(StrCell(CodeP1), StrCell(ProjSite), DateCell(DayOf(IngestTarget, 5)),
           StrCell(NameB), NullCell)>>,
     <<HeaderRow,
       Row(StrCell(CodeP1), StrCell(ProjSite), NullCell, StrCell(NameA), NullCell)>>,
     <<HeaderRow,
       Row(StrCell(CodeP1), NumCell(7), DateCell(DayOf(IngestTarget, 4)),
           StrCell(NameA), NullCell)>>}

InitServer ==
    \E n \in {0, 1} : \E rows \in ServerSheets :
        /\ n = 0 => rows = <<>>
        /\ worksheets = n
        /\ sheet = rows
        /\ month = IngestTarget.month
        /\ year = IngestTarget.year
        /\ satFriEmployees = {}
        /\ tzWest = FALSE
        /\ projectPolicySheet =
              <<PolicyHeader,
                PolicyRow(StrCell(CodeP1), StrCell(ProjSite), NullCell, StrCell(Yes),
                          NullCell)>>
        /\ employeePolicySheet =
              <<EmployeeHeader,
                EmployeeRow(StrCell(NameA), NumCell(200), StrCell(FoodPolicy1))>>
        /\ FreshObjects
        /\ outputDir = <<>>
        /\ requests = <<>>

NextServer ==
    \/ Generate_clear
    \/ Generate_generatePDFs
    \/ Absence_load
    \/ Absence_generateExcelReport
    \/ Validate_process
    \/ Validate_generateExcelReport
    \/ Summary_load
    \/ Summary_generateExcelReport
    \/ Food_load
    \/ Food_generateExcelReport
    \/ All_clear
    \/ All_absence
    \/ All_validation
    \/ All_summary
    \/ All_food
    \/ All_pdfs
    \/ All_zip
    \/ Download

SpecServer == InitServer /\ [][NextServer]_vars

\* ------------------------------------------------------------------------
\* Claim C21: structural defects of the source
\* ------------------------------------------------------------------------
\* the upload has no worksheet, no header row, or no data row
StructuralDefect == NoWorksheet \/ Len(sheet) <= 1

\* C21: on a structurally defective source (no worksheet or header row, or no
\* data rows at all) every report run ends with an error: no request sends a
\* complete event and no report file is written.
C21_StructuralDefectFatal ==
    StructuralDefect =>
        /\ \A r \in DOMAIN requests : requests[r].event # "complete"
        /\ DOMAIN outputDir = {}

\* ------------------------------------------------------------------------
\* Claims C29..C30: requests sharing the output directory
\* ------------------------------------------------------------------------
\* C29: once a request has sent its complete event naming a fileName, a later
\* GET /download-food-allowance for that fileName returns the file that same
\* request wrote, whatever other requests did in between.
C29_DownloadOwnFile ==
    \A r \in DOMAIN requests :
        requests[r].download # 0 => requests[r].download = r

\* C30: a POST /generate with a worksheet that has in-window data, received
\* when every earlier request has ended, does not end with an error event.
C30_GenerateCompletes ==
    [][(/\ Len(requests') = Len(requests) + 1
        /\ requests'[Len(requests')].endpoint = "generate"
        /\ \A q \in DOMAIN requests : requests[q].pc = "done"
        /\ ~NoWorksheet
        /\ TG_employeeCount > 0)
           => requests'[Len(requests')].event # "error"]_vars

\* ------------------------------------------------------------------------
\* Payroll runs: both reconcilers over repeated records of employee A on the
\* rest days of the month
\* ------------------------------------------------------------------------
\* number of records on one date
MaxRepeats == 6

\* a 31-day month with four Fridays besides the targets of the
\* reconciliation runs
PayrollTargets == Targets \cup {[month |-> 1, year |-> 2024]}

\* n records of employee A on day d of target month t, under P1 and P2 in turn
RepeatedRows(t, d, n) ==
    [i \in 1..n |->
        Row(StrCell(IF i % 2 = 1 THEN CodeP1 ELSE CodeP2), StrCell(ProjSite),
            DateCell(DayOf(t, d)), StrCell(NameA), NullCell)]

\* the worksheet: f1 records on the first Friday, f2 on the second Friday,
\* s1 on the first Saturday
PayrollSheet(t, f1, f2, s1) ==
    <<HeaderRow>> \o RepeatedRows(t, FirstWeekday(t, 5), f1)
                  \o RepeatedRows(t, FirstWeekday(t, 5) + 7, f2)
                  \o RepeatedRows(t, FirstWeekday(t, 6), s1)

InitPayroll ==
    \E t \in PayrollTargets, sf \in {{}, {NameA}}, west \in BOOLEAN :
        \E f1 \in 0..MaxRepeats, f2 \in 0..1, s1 \in 0..2 :
            /\ sheet = PayrollSheet(t, f1, f2, s1)
            /\ month = t.month
            /\ year = t.year
            /\ satFriEmployees = sf
            /\ tzWest = west
            /\ NoPolicySheets
            /\ OneUpload
            /\ FreshObjects

NextPayroll ==
    \/ TG_processExcel
    \/ TG_generatePDFs
    \/ AR_loadTimesheetData
    \/ AR_calculatePayrunAndAbsence

SpecPayroll == InitPayroll /\ [][NextPayroll]_vars

\* ------------------------------------------------------------------------
\* Claims C22, C24..C26: the figures of the two reconcilers
\* ------------------------------------------------------------------------
\* the scenario: March 2024, employee A on the Friday-only policy with
\* records on 2024-03-01 (P1), 2024-03-01 (P2) and 2024-03-08 (P1)
Scenario ==
    /\ month = 3
    /\ year = 2024
    /\ satFriEmployees = {}
    /\ sheet = PayrollSheet([month |-> 3, year |-> 2024], 2, 1, 0)

\* C22: in the scenario the month has 4 Fridays and both reconcilers give
\* employee A workedFridays = 1, absence = 26 and payrunDays = 4, the absence
\* report workedDays = 2.
C22_MarchScenario ==
    Scenario =>
        /\ tg.stage = "processed" =>
              /\ TG_getTotalFridaysInMonth = 4
              /\ tg.employeeSummaries[NameA].workedFridays = 1
              /\ tg.employeeSummaries[NameA].totalAbsentDays = 26
              /\ tg.employeeSummaries[NameA].totalPayrunDays = 4
        /\ ar.stage = "calculated" =>
              /\ AR_totalWeekday(5) = 4
              /\ ar.payrunSummary[NameA].workedDays = 2
              /\ ar.payrunSummary[NameA].workedFridays = 1
              /\ ar.payrunSummary[NameA].absence = 26
              /\ ar.payrunSummary[NameA].payrunDays = 4

\* C24: in every employee summary payrunDays is in 0..30.
C24_PayrunRange ==
    /\ \A e \in DOMAIN tg.employeeSummaries :
          tg.employeeSummaries[e].totalPayrunDays \in 0..30
    /\ \A e \in DOMAIN ar.payrunSummary :
          ar.payrunSummary[e].payrunDays \in 0..30

\* C25: over the same rows, month, year and Friday+Saturday list the PDF
\* timesheet reconciler and the absence report reconciler give every
\* employee the same workedFridays, workedSaturdays, absent days and payrun
\* days.
C25_ReconcilersAgree ==
    tg.stage \in {"processed", "printed"} /\ ar.stage = "calculated" =>
        /\ DOMAIN tg.employeeSummaries = DOMAIN ar.payrunSummary
        /\ \A e \in DOMAIN tg.employeeSummaries :
              /\ tg.employeeSummaries[e].workedFridays
                   = ar.payrunSummary[e].workedFridays
              /\ tg.employeeSummaries[e].workedSaturdays
                   = ar.payrunSummary[e].workedSaturdays
              /\ tg.employeeSummaries[e].totalAbsentDays = ar.payrunSummary[e].absence
              /\ tg.employeeSummaries[e].totalPayrunDays
                   = ar.payrunSummary[e].payrunDays

\* C26: the absent-day count of a report equals the number of days the same
\* report shows as absent: absence = Len(absentDates) in the absence report,
\* totalAbsentDays = number of day rows with status 'Absent' in the PDF
\* timesheet.
C26_AbsentCountMatchesDays ==
    /\ \A e \in DOMAIN ar.payrunSummary :
          ar.payrunSummary[e].absence = Len(ar.payrunSummary[e].absentDates)
    /\ \A e \in DOMAIN tg.html :
          tg.html[e].totalAbsentDays
            = Cardinality({day \in DOMAIN tg.html[e].tableRows :
                              tg.html[e].tableRows[day] = <<"Absent">>})

\* ------------------------------------------------------------------------
\* Isolation runs: the absence report, the allowance report and the
\* allocation report over one upload with rows of two employees
\* ------------------------------------------------------------------------
\* rows of the isolation runs: A on the 4th under P1 and under P2, A on the
\* 5th under P2; B on the 4th under P1, and B on the 4th under a project whose
\* name cell holds a number
IsolationRows ==
    {Row(StrCell(CodeP1), StrCell(ProjSite), DateCell(DayOf(IngestTarget, 4)),
         StrCell(NameA), NullCell),
     Row(StrCell(CodeP2), StrCell(WebSite), DateCell(DayOf(IngestTarget, 4)),
         StrCell(NameA), NullCell),
     Row(StrCell(CodeP2), StrCell(WebSite), DateCell(DayOf(IngestTarget, 5)),
         StrCell(NameA), NullCell),
     Row(StrCell(CodeP1), StrCell(ProjSite), DateCell(DayOf(IngestTarget, 4)),
         StrCell(NameB), NullCell),
     Row(StrCell(CodeP1), NumCell(7), DateCell(DayOf(IngestTarget, 4)),
         StrCell(NameB), NullCell)}

\* the policy worksheets of the isolation runs: P1 under policy 1 and P2 under
\* policy 2; A on policy 2 and B on policy 1
IsolationProjectPolicy ==
    <<PolicyHeader,
      PolicyRow(StrCell(CodeP1), StrCell(ProjSite), NullCell,
                StrCell(<<"Y","e","s">>), StrCell(<<"N","o">>)),
      PolicyRow(StrCell(CodeP2), StrCell(WebSite), NullCell,
                StrCell(<<"n","o">>), StrCell(<<"Y","E","S">>))>>

IsolationEmployeePolicy ==
    <<EmployeeHeader,
      EmployeeRow(StrCell(NameA), StrCell(Amount150), StrCell(FoodPolicy2)),
      EmployeeRow(StrCell(NameB), NumCell(100), StrCell(FoodPolicy1))>>

InitIsolation ==
    \E west \in BOOLEAN :
        \E rows \in SeqsUpTo(IsolationRows, MaxAllocationRows) :
            /\ sheet = <<HeaderRow>> \o rows
            /\ month = IngestTarget.month
            /\ year = IngestTarget.year
            /\ satFriEmployees = {}
            /\ tzWest = west
            /\ projectPolicySheet = IsolationProjectPolicy
            /\ employeePolicySheet = IsolationEmployeePolicy
            /\ OneUpload
            /\ FreshObjects

NextIsolation ==
    \/ AR_loadTimesheetData
    \/ AR_calculatePayrunAndAbsence
    \/ FA_loadProjectPolicies
    \/ FA_loadEmployeePolicies
    \/ FA_loadTimesheetData
    \/ FA_calculateFoodAllowance
    \/ PS_loadTimesheetData
    \/ PS_generateExcelReport

SpecIsolation == InitIsolation /\ [][NextIsolation]_vars

\* the worksheet of the run that differs from this one in the rows of the
\* other employees only, none of them being there: the header row and the
\* rows that name employee e
OwnSheet(e) ==
    <<sheet[1]>> \o SelectSeq(Tail(sheet),
                              LAMBDA r : Truthy(r.employeeName) /\ EmployeeKey(r) = e)

\* the employees named by a row of the worksheet
NamedEmployees ==
    {EmployeeKey(sheet[i]) : i \in {j \in 2..Len(sheet) : Truthy(sheet[j].employeeName)}}

\* the absence summary, the allowance run and the allocation result of the
\* run over OwnSheet(e), the request parameters and policy tables unchanged
OwnAbsence(e) == AR_calculate(AR_eachRow(EmptyObj, OwnSheet(e)), EmptyObj)

OwnAllowanceIngest(e) == FA_eachRow(EmptyObj, OwnSheet(e))

OwnAllowance(e) ==
    FA_calculateOn([fa EXCEPT !.employeeData = OwnAllowanceIngest(e).data,
                              !.foodAllowanceSummary = EmptyObj])

OwnAllocation(e) ==
    PS_calculatePercentages(PS_counted(PS_eachRow({}, OwnSheet(e))))

\* employee e has the same entry, or none, in the two objects
SameEntry(a, b, e) ==
    /\ e \in DOMAIN a <=> e \in DOMAIN b
    /\ e \in DOMAIN a => a[e] = b[e]

\* C23: an employee's derived summaries depend only on the employee's own
\* rows, the month and the policy tables: the run over the whole worksheet
\* gives employee e the absence summary, the allowance summary and, for the
\* projects e has records on, the allocation days and percentage that the run
\* over e's rows alone gives, and it ends when that run ends.
C23_OwnRecordsOnly ==
    \A e \in NamedEmployees :
        /\ ar.stage = "calculated" =>
              /\ e \in DOMAIN ar.payrunSummary <=> e \in DOMAIN OwnAbsence(e)
              /\ e \in DOMAIN ar.payrunSummary =>
                    AR_figures(ar.payrunSummary[e]) = AR_figures(OwnAbsence(e)[e])
        /\ fa.stage = "failed" => OwnAllowanceIngest(e).error
        /\ fa.stage = "calculated" =>
              SameEntry(fa.foodAllowanceSummary, OwnAllowance(e), e)
        /\ ps.stage = "reported" =>
              /\ e \in DOMAIN ps.percentages <=> e \in DOMAIN OwnAllocation(e)
              /\ e \in DOMAIN ps.percentages =>
                    \A p \in DOMAIN ps.employeeProjects[e] :
                        /\ p \in DOMAIN OwnAllocation(e)[e].projects
                        /\ ps.percentages[e].projects[p]
                             = OwnAllocation(e)[e].projects[p]

\* ------------------------------------------------------------------------
\* Share runs: ProjectSummaryGenerator over one upload with up to three
\* worked dates of an employee
\* ------------------------------------------------------------------------
Lab == <<"L", "a", "b">>

\* rows of the share runs: A on the 4th under 'Site', on the 5th under 'Web
\* Site' and under 'Site', on the 6th under 'Lab' and under no project name;
\* B on the 4th under 'Site'
ShareRows ==
    {Row(StrCell(CodeP1), StrCell(ProjSite), DateCell(DayOf(IngestTarget, 4)),
         StrCell(NameA), NullCell),
     Row(StrCell(CodeX1), StrCell(WebSite), DateCell(DayOf(IngestTarget, 5)),
         StrCell(NameA), NullCell),
     Row(StrCell(CodeP1), StrCell(ProjSite), DateCell(DayOf(IngestTarget, 5)),
         StrCell(NameA), NullCell),
     Row(StrCell(CodeP2), StrCell(Lab), DateCell(DayOf(IngestTarget, 6)),
         StrCell(NameA), NullCell),
     Row(StrCell(CodeP2), NullCell, DateCell(DayOf(IngestTarget, 6)),
         StrCell(NameA), NullCell),
     Row(StrCell(CodeP1), StrCell(ProjSite), DateCell(DayOf(IngestTarget, 4)),
         StrCell(NameB), NullCell)}

InitShares ==
    \E west \in BOOLEAN :
        \E rows \in SeqsUpTo(ShareRows, MaxAllocationRows) :
            /\ sheet = <<HeaderRow>> \o rows
            /\ month = IngestTarget.month
            /\ year = IngestTarget.year
            /\ satFriEmployees = {}
            /\ tzWest = west
            /\ NoPolicySheets
            /\ OneUpload
            /\ FreshObjects

NextShares ==
    \/ PS_loadTimesheetData
    \/ PS_generateExcelReport

SpecShares == InitShares /\ [][NextShares]_vars

\* the days of employee e summed over all projects of the allocation result
ProjectDaysSum(e) ==
    SumOver([p \in DOMAIN ps.percentages[e].projects |->
                ps.percentages[e].projects[p].days],
            DOMAIN ps.percentages[e].projects)

\* C27: in the allocation result the project days of an employee, summed over
\* all projects, are at least totalDays, the summed percentage of the row is
\* not below 100, and the Unassigned cell of the with-unassigned sheet is 0.
C27_NothingUnassigned ==
    ps.stage = "reported" =>
        \A e \in DOMAIN ps.percentages :
            /\ ProjectDaysSum(e) >= ps.percentages[e].totalDays
            /\ ~F_less(ps.workbook.WithUnassigned[e].bucket.rowTotal, F_number(100))
            /\ ps.workbook.WithUnassigned[e].bucket.text = <<"0", "%">>

\* ------------------------------------------------------------------------
\* FoodAllowanceCalculator, the sheets of generateExcelReport
\* ------------------------------------------------------------------------
CommaSpace == <<",", " ">>

\* array.join(', ')
RECURSIVE join(_)
join(strs) ==
    IF strs = <<>> THEN <<>>
    ELSE IF Len(strs) = 1 THEN strs[1]
    ELSE strs[1] \o CommaSpace \o join(Tail(strs))

\* str.split(', '): the pieces between the occurrences of the separator
RECURSIVE splitBy(_, _)
splitBy(str, sep) ==
    LET at == {i \in 1..(Len(str) - Len(sep) + 1) :
                  SubSeq(str, i, i + Len(sep) - 1) = sep}
        first == CHOOSE i \in at : \A j \in at : i <= j
    IN IF at = {} THEN <<str>>
       ELSE <<SubSeq(str, 1, first - 1)>>
                \o splitBy(SubSeq(str, first + Len(sep), Len(str)), sep)

\* createSummarySheet: one row per employee of the summary and the Grand
\* Total row
FA_createSummarySheet(summary) ==
    [rows |-> [e \in DOMAIN summary |->
                  [amount |-> summary[e].amountPerDay,
                   days   |-> summary[e].eligibleDays,
                   total  |-> summary[e].totalAmount]],
     grandTotal |-> SumOver([e \in DOMAIN summary |-> summary[e].totalAmount],
                            DOMAIN summary)]

\* the project codes createProjectSheet reads back from the projects text of
\* breakdown entry k of employee e
FA_dayProjects(summary, e, k) ==
    splitBy(join(summary[e].dailyBreakdown[k].projects), CommaSpace)

\* the (employee, breakdown entry, project position) triples the aggregation
\* loop of createProjectSheet visits
FA_projectVisits(summary) ==
    {v \in (DOMAIN summary) \X (1..MaxRows) \X (1..MaxRows) :
        /\ v[2] \in DOMAIN summary[v[1]].dailyBreakdown
        /\ summary[v[1]].dailyBreakdown[v[2]].eligible
        /\ v[3] \in DOMAIN FA_dayProjects(summary, v[1], v[2])}

\* projectData[projectCode] after the aggregation loop
FA_projectData(summary) ==
    LET visits == FA_projectVisits(summary)
        code(v) == FA_dayProjects(summary, v[1], v[2])[v[3]]
        of(c, policy) == {v \in visits : code(v) = c /\ summary[v[1]].policy = policy}
        amount(c, policy) ==
            SumOver([v \in of(c, policy) |-> summary[v[1]].amountPerDay], of(c, policy))
    IN [c \in {code(v) : v \in visits} |->
           [policy1Days   |-> Cardinality(of(c, FoodPolicy1)),
            policy2Days   |-> Cardinality(of(c, FoodPolicy2)),
            policy1Amount |-> amount(c, FoodPolicy1),
            policy2Amount |-> amount(c, FoodPolicy2)]]

\* createProjectSheet: one row per project code and the Total row
FA_createProjectSheet(projectData) ==
    [rows |-> [c \in DOMAIN projectData |->
                  [p1days   |-> projectData[c].policy1Days,
                   p1amount |-> projectData[c].policy1Amount,
                   p2days   |-> projectData[c].policy2Days,
                   p2amount |-> projectData[c].policy2Amount,
                   total    |-> projectData[c].policy1Amount
                                    + projectData[c].policy2Amount]],
     totalP1Days   |-> SumOver([c \in DOMAIN projectData |-> projectData[c].policy1Days],
                               DOMAIN projectData),
     totalP2Days   |-> SumOver([c \in DOMAIN projectData |-> projectData[c].policy2Days],
                               DOMAIN projectData),
     totalP1Amount |-> SumOver([c \in DOMAIN projectData |-> projectData[c].policy1Amount],
                               DOMAIN projectData),
     totalP2Amount |-> SumOver([c \in DOMAIN projectData |-> projectData[c].policy2Amount],
                               DOMAIN projectData),
     grandTotal    |-> SumOver([c \in DOMAIN projectData |->
                                   projectData[c].policy1Amount
                                       + projectData[c].policy2Amount],
                               DOMAIN projectData)]

\* generateExcelReport(outputPath): the summary sheet and the project sheet
FA_generateExcelReport ==
    /\ fa.stage = "calculated"
    /\ fa' = [fa EXCEPT !.stage = "reported",
                        !.workbook =
                            [Summary |-> FA_createSummarySheet(fa.foodAllowanceSummary),
                             Project |-> FA_createProjectSheet(
                                             FA_projectData(fa.foodAllowanceSummary))]]
    /\ UNCHANGED <<inputs, server, tg, ar, dv, ps>>

\* ------------------------------------------------------------------------
\* Allowance report runs: FoodAllowanceCalculator from the loaders to the
\* workbook
\* ------------------------------------------------------------------------
NextAllowanceReport ==
    \/ FA_loadProjectPolicies
    \/ FA_loadEmployeePolicies
    \/ FA_loadTimesheetData
    \/ FA_calculateFoodAllowance
    \/ FA_generateExcelReport

SpecAllowanceReport == InitAllowance /\ [][NextAllowanceReport]_vars

\* the eligible days of all employees of the allowance summary
EligibleDaysTotal ==
    SumOver([e \in DOMAIN fa.foodAllowanceSummary |->
                fa.foodAllowanceSummary[e].eligibleDays],
            DOMAIN fa.foodAllowanceSummary)

\* C28: in the food-allowance report the grand total of the per-project sheet
\* equals the grand total of the employee summary sheet, and the day counts
\* of the per-project sheet add up to the eligible days of all employees.
C28_ProjectSheetMatchesSummary ==
    fa.stage = "reported" =>
        /\ fa.workbook.Project.grandTotal = fa.workbook.Summary.grandTotal
        /\ fa.workbook.Project.totalP1Days + fa.workbook.Project.totalP2Days
             = EligibleDaysTotal

====
